---- MODULE Spec2Model ----
(***************************************************************************)
(* Host-function bridge of the massa smart-contract runtime: the gas       *)
(* ledger (src/src/env/mod.rs), the AssemblyScript environment             *)
(* (src/src/env/as_env.rs) and the ABI dispatch surface with the           *)
(* inter-contract call protocol (src/src/abi_impl.rs).                     *)
(*                                                                         *)
(* Integers are scaled: the 64-bit words of the program are WordBits wide  *)
(* here, so that wrap-around, checked_sub and checked_mul keep their       *)
(* behaviour on values TLC can enumerate.                                  *)
(***************************************************************************)
EXTENDS Integers, Sequences, FiniteSets, TLC

VARIABLES stack, iface, last, hist

vars == <<stack, iface, last, hist>>

(***************************************************************************)
(* Bounds of the model.                                                    *)
(***************************************************************************)
WordBits == 3
MaxDepth == 3
MaxOpCost == 2

Pow2(n) == 2 ^ n
Two64 == Pow2(WordBits)
U64Max == Two64 - 1
I64Min == 0 - (Two64 \div 2)
I64Max == (Two64 \div 2) - 1
U64 == 0 .. U64Max
I64 == I64Min .. I64Max
UsizeMax == U64Max
Usize == 0 .. UsizeMax

(***************************************************************************)
(* Option<T>: None is the empty sequence, Some(v) the one-element one.     *)
(***************************************************************************)
None == << >>
Some(v) == << v >>

(***************************************************************************)
(* Value conversions of the globals: a u64 is stored in an i64 global      *)
(* (points.into()) and read back (try_into::<u64>), both bit-preserving.   *)
(***************************************************************************)
u64_to_i64(v) == IF v > I64Max THEN v - Two64 ELSE v
i64_to_u64(x) == IF x < 0 THEN x + Two64 ELSE x

(***************************************************************************)
(* Error messages of the gas ledger.                                       *)
(***************************************************************************)
ErrLostExhausted == "Lost reference to exhausted_points"
ErrLostRemaining == "Lost reference to remaining_points"
ErrGasZero == "Remaining gas reach zero"
ErrMulOverflow == "Multiplication overflow"
NoErr == ""

(***************************************************************************)
(* ASEnv::new: memory and both gas globals unbound.                        *)
(***************************************************************************)
ASEnv_new ==
  [memory |-> FALSE, remaining_points |-> None, exhausted_points |-> None]

(***************************************************************************)
(* Variant of get_remaining_points that decodes the counter without        *)
(* looking at the exhaustion flag.                                         *)
(***************************************************************************)
get_remaining_points_counter_only(env) ==
  IF env.remaining_points = None
  THEN [err |-> ErrLostRemaining, val |-> 0, reads |-> << >>]
  ELSE [err |-> NoErr, val |-> i64_to_u64(env.remaining_points[1]),
        reads |-> <<"remaining_points">>]

(***************************************************************************)
(* Variant of get_remaining_points that reads a missing global as zero.    *)
(***************************************************************************)
get_remaining_points_default_zero(env) ==
  IF env.exhausted_points # None /\ env.exhausted_points[1] > 0
  THEN [err |-> NoErr, val |-> 0, reads |-> <<"exhausted_points">>]
  ELSE IF env.remaining_points = None
  THEN [err |-> NoErr, val |-> 0, reads |-> << >>]
  ELSE [err |-> NoErr, val |-> i64_to_u64(env.remaining_points[1]),
        reads |-> <<"exhausted_points", "remaining_points">>]

(***************************************************************************)
(* get_remaining_points: the exhaustion flag first, then the counter.      *)
(* reads lists the globals whose value was fetched, in order.              *)
(***************************************************************************)
get_remaining_points(env) ==
  IF env.exhausted_points = None
  THEN [err |-> ErrLostExhausted, val |-> 0, reads |-> << >>]
  ELSE IF env.exhausted_points[1] > 0
  THEN [err |-> NoErr, val |-> 0, reads |-> <<"exhausted_points">>]
  ELSE IF env.remaining_points = None
  THEN [err |-> ErrLostRemaining, val |-> 0, reads |-> <<"exhausted_points">>]
  ELSE [err |-> NoErr, val |-> i64_to_u64(env.remaining_points[1]),
        reads |-> <<"exhausted_points", "remaining_points">>]

(***************************************************************************)
(* Variant of set_remaining_points that leaves the exhaustion flag as it   *)
(* is.                                                                     *)
(***************************************************************************)
set_remaining_points_keep_flag(env, points) ==
  IF env.remaining_points = None
  THEN [err |-> ErrLostRemaining, env |-> env]
  ELSE [err |-> IF env.exhausted_points = None THEN ErrLostExhausted ELSE NoErr,
        env |-> [env EXCEPT !.remaining_points = Some(u64_to_i64(points))]]

(***************************************************************************)
(* set_remaining_points: writes the counter, then clears the flag; a       *)
(* missing flag is found only after the counter was written.               *)
(***************************************************************************)
set_remaining_points(env, points) ==
  IF env.remaining_points = None
  THEN [err |-> ErrLostRemaining, env |-> env]
  ELSE LET written == [env EXCEPT !.remaining_points = Some(u64_to_i64(points))]
       IN IF env.exhausted_points = None
          THEN [err |-> ErrLostExhausted, env |-> written]
          ELSE [err |-> NoErr,
                env |-> [written EXCEPT !.exhausted_points = Some(0)]]

(***************************************************************************)
(* Variant of sub_remaining_gas with a wrapping subtraction.               *)
(***************************************************************************)
sub_remaining_gas_wrapping(env, gas) ==
  LET remaining_gas == get_remaining_points(env)
  IN IF remaining_gas.err # NoErr
     THEN [err |-> remaining_gas.err, env |-> env]
     ELSE set_remaining_points(env, (remaining_gas.val - gas) % Two64)

(***************************************************************************)
(* Variant of sub_remaining_gas that credits the amount (saturating)       *)
(* instead of taking it.                                                   *)
(***************************************************************************)
sub_remaining_gas_crediting(env, gas) ==
  LET remaining_gas == get_remaining_points(env)
  IN IF remaining_gas.err # NoErr
     THEN [err |-> remaining_gas.err, env |-> env]
     ELSE set_remaining_points(env, IF remaining_gas.val + gas > U64Max
                                    THEN U64Max ELSE remaining_gas.val + gas)

(***************************************************************************)
(* sub_remaining_gas: checked_sub on the effective remaining gas.          *)
(***************************************************************************)
sub_remaining_gas(env, gas) ==
  LET remaining_gas == get_remaining_points(env)
  IN IF remaining_gas.err # NoErr
     THEN [err |-> remaining_gas.err, env |-> env]
     ELSE IF remaining_gas.val >= gas
          THEN set_remaining_points(env, remaining_gas.val - gas)
          ELSE [err |-> ErrGasZero, env |-> env]

(***************************************************************************)
(* Variant of sub_remaining_gas_with_mult with a wrapping multiplication.  *)
(***************************************************************************)
sub_remaining_gas_with_wrapping_mult(env, a, b) ==
  sub_remaining_gas(env, (a * b) % (UsizeMax + 1))

(***************************************************************************)
(* sub_remaining_gas_with_mult: checked_mul in usize, then the charge.     *)
(***************************************************************************)
sub_remaining_gas_with_mult(env, a, b) ==
  IF a * b <= UsizeMax
  THEN sub_remaining_gas(env, a * b)
  ELSE [err |-> ErrMulOverflow, env |-> env]


(***************************************************************************)
(* Injected configuration (crate::settings): constant costs and per-byte   *)
(* rates of the dispatch functions.                                        *)
(***************************************************************************)
metering_call == 1
metering_transfer == 1
metering_send_message == 1
metering_signature_verify_const == 1
metering_signature_verify_data_mult == 1
metering_set_data_const == 1
metering_set_data_key_mult == 1
metering_set_data_value_mult == 2
metering_append_data_const == 1
metering_append_data_key_mult == 1
metering_append_data_value_mult == 2
metering_get_data_const == 1
metering_get_data_key_mult == 1
metering_get_data_value_mult == 1
metering_has_data_const == 1
metering_has_data_key_mult == 1
metering_delete_data_const == 1
metering_delete_data_key_mult == 1
metering_create_sc_mult == 1
metering_get_call_coins == 1
metering_remaining_gas == 1
metering_print == 1
metering_hash_const == 1
metering_hash_per_byte == 2
metering_get_owned_addrs == 1
metering_get_call_stack == 1
metering_generate_event == 1
metering_address_from_public_key == 1
metering_unsafe_random == 1
metering_get_time == 1
metering_get_current_period == 1
metering_get_current_thread == 1
metering_get_balance == 1
metering_set_bytecode_const == 1
metering_set_bytecode_mult == 1

(***************************************************************************)
(* Guest memory, seen through StringPtr: a pointer argument either         *)
(* designates a well-formed string (Some(s)) or nothing readable (None).   *)
(***************************************************************************)
ErrNoMemory == "uninitialized memory"
ErrRead == "cannot read string"
ErrAlloc == "cannot allocate"
BadPtr == None
str_len(s) == Len(s)

get_string(ptr) ==
  IF ptr = BadPtr THEN [err |-> ErrRead, val |-> ""]
  ELSE [err |-> NoErr, val |-> ptr[1]]

read_string_and_sub_gas(env, offset, mult) ==
  IF offset = BadPtr
  THEN [err |-> ErrRead, env |-> env, val |-> ""]
  ELSE LET g == sub_remaining_gas_with_mult(env, str_len(offset[1]), mult)
       IN [err |-> g.err, env |-> g.env, val |-> offset[1]]

(***************************************************************************)
(* Results of a dispatch function: the error message (NoErr on Ok), the    *)
(* environment and Interface state it leaves, the value returned to the    *)
(* guest and the Interface methods it invoked, in order.                   *)
(***************************************************************************)
Invoked(m, a) == [method |-> m, args |-> a]
Bail(msg, env, ifc, calls) ==
  [err |-> msg, env |-> env, iface |-> ifc, ret |-> None, calls |-> calls]
Ok(env, ifc, ret, calls) ==
  [err |-> NoErr, env |-> env, iface |-> ifc, ret |-> ret, calls |-> calls]

(***************************************************************************)
(* The Interface (crate::types::Interface), the ledger behind the bridge:  *)
(* a stack of called addresses and a datastore per address.  A method      *)
(* fails with a domain error when the ledger refuses it (ok = FALSE) or    *)
(* when the entry it needs is absent.  Every method returns its error,     *)
(* the Interface state it leaves and its value.                            *)
(***************************************************************************)
Addresses == {"A1", "A2"}
ErrInterface == "interface error"
ErrNoEntry == "data entry not found"

IfRes(err, ifc, val) == [err |-> err, iface |-> ifc, val |-> val]

NoData == [k \in {} |-> ""]
Interface_new ==
  [call_stack |-> <<"A1">>, datastore |-> [a \in Addresses |-> NoData]]

current_address(ifc) == ifc.call_stack[Len(ifc.call_stack)]
has_entry(ifc, address, key) == key \in DOMAIN ifc.datastore[address]

init_call(ifc, address, raw_coins, ok) ==
  IF ok /\ address \in Addresses
  THEN IfRes(NoErr, [ifc EXCEPT !.call_stack = Append(@, address)], address)
  ELSE IfRes(ErrInterface, ifc, "")

finish_call(ifc, ok) ==
  IF ok /\ Len(ifc.call_stack) > 1
  THEN IfRes(NoErr, [ifc EXCEPT !.call_stack = SubSeq(@, 1, Len(@) - 1)], "")
  ELSE IfRes(ErrInterface, ifc, "")

transfer_coins(ifc, to_address, raw_amount, ok) ==
  IF ok THEN IfRes(NoErr, ifc, "") ELSE IfRes(ErrInterface, ifc, "")

transfer_coins_for(ifc, from_address, to_address, raw_amount, ok) ==
  IF ok THEN IfRes(NoErr, ifc, "") ELSE IfRes(ErrInterface, ifc, "")

raw_set_data_for(ifc, address, key, value, ok) ==
  IF ~(ok /\ address \in Addresses)
  THEN IfRes(ErrInterface, ifc, "")
  ELSE LET d == ifc.datastore[address]
       IN IfRes(NoErr,
                [ifc EXCEPT !.datastore[address] =
                   [k \in DOMAIN d \cup {key} |->
                      IF k = key THEN value ELSE d[k]]], "")

raw_append_data_for(ifc, address, key, value, ok) ==
  IF ~(ok /\ address \in Addresses)
  THEN IfRes(ErrInterface, ifc, "")
  ELSE IF ~has_entry(ifc, address, key)
  THEN IfRes(ErrNoEntry, ifc, "")
  ELSE IfRes(NoErr, [ifc EXCEPT !.datastore[address][key] = @ \o value], "")

raw_get_data_for(ifc, address, key, ok) ==
  IF ~(ok /\ address \in Addresses)
  THEN IfRes(ErrInterface, ifc, "")
  ELSE IF ~has_entry(ifc, address, key)
  THEN IfRes(ErrNoEntry, ifc, "")
  ELSE IfRes(NoErr, ifc, ifc.datastore[address][key])

has_data_for(ifc, address, key, ok) ==
  IF ~(ok /\ address \in Addresses)
  THEN IfRes(ErrInterface, ifc, FALSE)
  ELSE IfRes(NoErr, ifc, has_entry(ifc, address, key))

raw_delete_data_for(ifc, address, key, ok) ==
  IF ~(ok /\ address \in Addresses)
  THEN IfRes(ErrInterface, ifc, "")
  ELSE IF ~has_entry(ifc, address, key)
  THEN IfRes(ErrNoEntry, ifc, "")
  ELSE LET d == ifc.datastore[address]
       IN IfRes(NoErr,
                [ifc EXCEPT !.datastore[address] =
                   [k \in DOMAIN d \ {key} |-> d[k]]], "")

raw_set_data(ifc, key, value, ok) ==
  raw_set_data_for(ifc, current_address(ifc), key, value, ok)
raw_append_data(ifc, key, value, ok) ==
  raw_append_data_for(ifc, current_address(ifc), key, value, ok)
raw_get_data(ifc, key, ok) ==
  raw_get_data_for(ifc, current_address(ifc), key, ok)
has_data(ifc, key, ok) ==
  has_data_for(ifc, current_address(ifc), key, ok)
raw_delete_data(ifc, key, ok) ==
  raw_delete_data_for(ifc, current_address(ifc), key, ok)

(***************************************************************************)
(* Interface.signature_verify: an error on a malformed signature or key,   *)
(* otherwise the verdict.  Interface.send_message: accepted or refused.    *)
(***************************************************************************)
ErrMalformed == "malformed signature or public key"
WellFormedSignatures == {"sg", "sx"}
WellFormedKeys == {"pk"}
Verifies(data, signature, public_key) ==
  data = "d" /\ signature = "sg" /\ public_key = "pk"

signature_verify(ifc, data, signature, public_key) ==
  IF signature \notin WellFormedSignatures \/ public_key \notin WellFormedKeys
  THEN IfRes(ErrMalformed, ifc, FALSE)
  ELSE IfRes(NoErr, ifc, Verifies(data, signature, public_key))

send_message(ifc, ok) ==
  IF ok THEN IfRes(NoErr, ifc, "") ELSE IfRes(ErrInterface, ifc, "")

(***************************************************************************)
(* Interface.get_call_coins, get_balance, get_balance_for: the ledger      *)
(* reports an unsigned amount, or refuses.                                 *)
(***************************************************************************)
get_call_coins(ifc, amount, ok) ==
  IF ok THEN IfRes(NoErr, ifc, amount) ELSE IfRes(ErrInterface, ifc, 0)

get_balance(ifc, amount, ok) ==
  IF ok THEN IfRes(NoErr, ifc, amount) ELSE IfRes(ErrInterface, ifc, 0)

get_balance_for(ifc, address, amount, ok) ==
  IF ok /\ address \in Addresses
  THEN IfRes(NoErr, ifc, amount) ELSE IfRes(ErrInterface, ifc, 0)

(***************************************************************************)
(* Interface.create_module: the ledger stores the module and assigns it    *)
(* an address.  Interface.raw_set_bytecode[_for]: accepted or refused.     *)
(***************************************************************************)
create_module(ifc, bytecode, address, ok) ==
  IF ok THEN IfRes(NoErr, ifc, address) ELSE IfRes(ErrInterface, ifc, "")

raw_set_bytecode_for(ifc, address, bytecode, ok) ==
  IF ok /\ address \in Addresses
  THEN IfRes(NoErr, ifc, "") ELSE IfRes(ErrInterface, ifc, "")

raw_set_bytecode(ifc, bytecode, ok) ==
  raw_set_bytecode_for(ifc, current_address(ifc), bytecode, ok)

(***************************************************************************)
(* The remaining Interface methods: each answers or refuses.  hash and     *)
(* address_from_public_key derive a string from their argument; the        *)
(* context getters report what the ledger holds.                           *)
(***************************************************************************)
print(ifc, message, ok) ==
  IF ok THEN IfRes(NoErr, ifc, "") ELSE IfRes(ErrInterface, ifc, "")

hash(ifc, data, ok) ==
  IF ok THEN IfRes(NoErr, ifc, "h(" \o data \o ")")
  ELSE IfRes(ErrInterface, ifc, "")

generate_event(ifc, event, ok) ==
  IF ok THEN IfRes(NoErr, ifc, "") ELSE IfRes(ErrInterface, ifc, "")

address_from_public_key(ifc, public_key) ==
  IF public_key \in WellFormedKeys THEN IfRes(NoErr, ifc, "A1")
  ELSE IfRes(ErrMalformed, ifc, "")

get_owned_addresses(ifc, ok) ==
  IF ok THEN IfRes(NoErr, ifc, <<current_address(ifc)>>)
  ELSE IfRes(ErrInterface, ifc, << >>)

get_call_stack(ifc, ok) ==
  IF ok THEN IfRes(NoErr, ifc, ifc.call_stack)
  ELSE IfRes(ErrInterface, ifc, << >>)

unsafe_random(ifc, rnd, ok) ==
  IF ok THEN IfRes(NoErr, ifc, rnd) ELSE IfRes(ErrInterface, ifc, 0)

get_time(ifc, time, ok) ==
  IF ok THEN IfRes(NoErr, ifc, time) ELSE IfRes(ErrInterface, ifc, 0)

get_current_period(ifc, period, ok) ==
  IF ok THEN IfRes(NoErr, ifc, period) ELSE IfRes(ErrInterface, ifc, 0)

get_current_thread(ifc, thread, ok) ==
  IF ok THEN IfRes(NoErr, ifc, thread) ELSE IfRes(ErrInterface, ifc, 0)

(***************************************************************************)
(* Coins.                                                                  *)
(***************************************************************************)
ErrNegativeRaw == "Negative raw amount."
ErrNegativeCall == "negative amount of coins in Call"

assembly_script_get_call_coins(env, ifc, amount, ok) ==
  LET g == sub_remaining_gas(env, metering_get_call_coins)
  IN IF g.err # NoErr THEN Bail(g.err, g.env, ifc, << >>)
     ELSE LET res == get_call_coins(ifc, amount, ok)
              calls == <<Invoked("get_call_coins", << >>)>>
          IN IF res.err # NoErr THEN Bail(res.err, g.env, res.iface, calls)
             ELSE Ok(g.env, res.iface, Some(u64_to_i64(res.val)), calls)

assembly_script_get_balance(env, ifc, amount, ok) ==
  LET g == sub_remaining_gas(env, metering_get_balance)
  IN IF g.err # NoErr THEN Bail(g.err, g.env, ifc, << >>)
     ELSE LET res == get_balance(ifc, amount, ok)
              calls == <<Invoked("get_balance", << >>)>>
          IN IF res.err # NoErr THEN Bail(res.err, g.env, res.iface, calls)
             ELSE Ok(g.env, res.iface, Some(u64_to_i64(res.val)), calls)

assembly_script_get_balance_for(env, ifc, address, amount, ok) ==
  LET g == sub_remaining_gas(env, metering_get_balance)
  IN IF g.err # NoErr THEN Bail(g.err, g.env, ifc, << >>)
     ELSE IF ~g.env.memory THEN Bail(ErrNoMemory, g.env, ifc, << >>)
     ELSE IF get_string(address).err # NoErr
     THEN Bail(ErrRead, g.env, ifc, << >>)
     ELSE LET a == get_string(address).val
              res == get_balance_for(ifc, a, amount, ok)
              calls == <<Invoked("get_balance_for", <<a>>)>>
          IN IF res.err # NoErr THEN Bail(res.err, g.env, res.iface, calls)
             ELSE Ok(g.env, res.iface, Some(u64_to_i64(res.val)), calls)

(***************************************************************************)
(* Variant of transfer_coins that gives the constant charge back when it   *)
(* rejects the amount.                                                     *)
(***************************************************************************)
assembly_script_transfer_coins_refund(env, ifc, to_address, raw_amount, ok) ==
  LET g == sub_remaining_gas(env, metering_transfer)
  IN IF g.err # NoErr THEN Bail(g.err, g.env, ifc, << >>)
     ELSE IF raw_amount < 0 THEN Bail(ErrNegativeRaw, env, ifc, << >>)
     ELSE IF ~g.env.memory THEN Bail(ErrNoMemory, g.env, ifc, << >>)
     ELSE IF get_string(to_address).err # NoErr
     THEN Bail(ErrRead, g.env, ifc, << >>)
     ELSE LET to == get_string(to_address).val
              r == transfer_coins(ifc, to, i64_to_u64(raw_amount), ok)
              calls == <<Invoked("transfer_coins", <<to, i64_to_u64(raw_amount)>>)>>
          IN IF r.err # NoErr THEN Bail(r.err, g.env, r.iface, calls)
             ELSE Ok(g.env, r.iface, None, calls)

assembly_script_transfer_coins(env, ifc, to_address, raw_amount, ok) ==
  LET g == sub_remaining_gas(env, metering_transfer)
  IN IF g.err # NoErr THEN Bail(g.err, g.env, ifc, << >>)
     ELSE IF raw_amount < 0 THEN Bail(ErrNegativeRaw, g.env, ifc, << >>)
     ELSE IF ~g.env.memory THEN Bail(ErrNoMemory, g.env, ifc, << >>)
     ELSE IF get_string(to_address).err # NoErr
     THEN Bail(ErrRead, g.env, ifc, << >>)
     ELSE LET to == get_string(to_address).val
              r == transfer_coins(ifc, to, i64_to_u64(raw_amount), ok)
              calls == <<Invoked("transfer_coins", <<to, i64_to_u64(raw_amount)>>)>>
          IN IF r.err # NoErr THEN Bail(r.err, g.env, r.iface, calls)
             ELSE Ok(g.env, r.iface, None, calls)

assembly_script_transfer_coins_for(env, ifc, from_address, to_address, raw_amount, ok) ==
  LET g == sub_remaining_gas(env, metering_transfer)
  IN IF g.err # NoErr THEN Bail(g.err, g.env, ifc, << >>)
     ELSE IF raw_amount < 0 THEN Bail(ErrNegativeRaw, g.env, ifc, << >>)
     ELSE IF ~g.env.memory THEN Bail(ErrNoMemory, g.env, ifc, << >>)
     ELSE IF get_string(from_address).err # NoErr
     THEN Bail(ErrRead, g.env, ifc, << >>)
     ELSE IF get_string(to_address).err # NoErr
     THEN Bail(ErrRead, g.env, ifc, << >>)
     ELSE LET from == get_string(from_address).val
              to == get_string(to_address).val
              r == transfer_coins_for(ifc, from, to, i64_to_u64(raw_amount), ok)
              calls == <<Invoked("transfer_coins_for",
                                 <<from, to, i64_to_u64(raw_amount)>>)>>
          IN IF r.err # NoErr THEN Bail(r.err, g.env, r.iface, calls)
             ELSE Ok(g.env, r.iface, None, calls)

(***************************************************************************)
(* Variant of signature_verify that treats a negative verdict as an        *)
(* error.                                                                  *)
(***************************************************************************)
assembly_script_signature_verify_strict(env, ifc, data, signature, public_key) ==
  LET g == sub_remaining_gas(env, metering_signature_verify_const)
  IN IF g.err # NoErr THEN Bail(g.err, g.env, ifc, << >>)
     ELSE IF ~g.env.memory THEN Bail(ErrNoMemory, g.env, ifc, << >>)
     ELSE LET d == read_string_and_sub_gas(g.env, data,
                                           metering_signature_verify_data_mult)
          IN IF d.err # NoErr THEN Bail(d.err, d.env, ifc, << >>)
             ELSE IF get_string(signature).err # NoErr
             THEN Bail(ErrRead, d.env, ifc, << >>)
             ELSE IF get_string(public_key).err # NoErr
             THEN Bail(ErrRead, d.env, ifc, << >>)
             ELSE LET sg == get_string(signature).val
                      pk == get_string(public_key).val
                      r == signature_verify(ifc, d.val, sg, pk)
                      calls == <<Invoked("signature_verify", <<d.val, sg, pk>>)>>
                  IN IF r.err # NoErr THEN Bail(r.err, d.env, r.iface, calls)
                     ELSE IF r.val THEN Ok(d.env, r.iface, Some(1), calls)
                     ELSE Bail("invalid signature", d.env, r.iface, calls)

(***************************************************************************)
(* signature_verify: the verdict as 0/1, the Interface's error as a trap.  *)
(***************************************************************************)
assembly_script_signature_verify(env, ifc, data, signature, public_key) ==
  LET g == sub_remaining_gas(env, metering_signature_verify_const)
  IN IF g.err # NoErr THEN Bail(g.err, g.env, ifc, << >>)
     ELSE IF ~g.env.memory THEN Bail(ErrNoMemory, g.env, ifc, << >>)
     ELSE LET d == read_string_and_sub_gas(g.env, data,
                                           metering_signature_verify_data_mult)
          IN IF d.err # NoErr THEN Bail(d.err, d.env, ifc, << >>)
             ELSE IF get_string(signature).err # NoErr
             THEN Bail(ErrRead, d.env, ifc, << >>)
             ELSE IF get_string(public_key).err # NoErr
             THEN Bail(ErrRead, d.env, ifc, << >>)
             ELSE LET sg == get_string(signature).val
                      pk == get_string(public_key).val
                      r == signature_verify(ifc, d.val, sg, pk)
                      calls == <<Invoked("signature_verify", <<d.val, sg, pk>>)>>
                  IN IF r.err # NoErr THEN Bail(r.err, d.env, r.iface, calls)
                     ELSE IF r.val THEN Ok(d.env, r.iface, Some(1), calls)
                     ELSE Ok(d.env, r.iface, Some(0), calls)

(***************************************************************************)
(* send_message.  n holds the numeric arguments: validity start period     *)
(* and thread, validity end period and thread, max gas, gas price, coins;  *)
(* p the three string pointers: target address, target handler, data.      *)
(* A period must fit u64, a thread u8.                                     *)
(***************************************************************************)
U8Max == 255
fits_u64(x) == x >= 0
fits_u8_upper_only(x) == x <= U8Max
fits_u8(x) == x >= 0 /\ x <= U8Max

assembly_script_send_message(env, ifc, p, n, ok) ==
  LET g == sub_remaining_gas(env, metering_send_message)
  IN IF g.err # NoErr THEN Bail(g.err, g.env, ifc, << >>)
     ELSE IF ~fits_u64(n.validity_start_period)
     THEN Bail("negative validity start period", g.env, ifc, << >>)
     ELSE IF ~fits_u8(n.validity_start_thread)
     THEN Bail("invalid validity start thread", g.env, ifc, << >>)
     ELSE IF ~fits_u64(n.validity_end_period)
     THEN Bail("negative validity end period", g.env, ifc, << >>)
     ELSE IF ~fits_u8(n.validity_end_thread)
     THEN Bail("invalid validity end thread", g.env, ifc, << >>)
     ELSE IF n.max_gas < 0 THEN Bail("negative max gas", g.env, ifc, << >>)
     ELSE IF n.gas_price < 0 THEN Bail("negative gas price", g.env, ifc, << >>)
     ELSE IF n.raw_coins < 0 THEN Bail("negative coins", g.env, ifc, << >>)
     ELSE IF ~g.env.memory THEN Bail(ErrNoMemory, g.env, ifc, << >>)
     ELSE IF get_string(p.target_address).err # NoErr
     THEN Bail(ErrRead, g.env, ifc, << >>)
     ELSE IF get_string(p.target_handler).err # NoErr
     THEN Bail(ErrRead, g.env, ifc, << >>)
     ELSE IF get_string(p.data).err # NoErr
     THEN Bail(ErrRead, g.env, ifc, << >>)
     ELSE LET r == send_message(ifc, ok)
              calls == <<Invoked("send_message", <<n>>)>>
          IN IF r.err # NoErr THEN Bail(r.err, g.env, r.iface, calls)
             ELSE Ok(g.env, r.iface, None, calls)

(***************************************************************************)
(* Datastore: five operations on the current address, five on an           *)
(* arbitrary one.                                                          *)
(***************************************************************************)
assembly_script_set_data(env, ifc, key, value, ok) ==
  LET g == sub_remaining_gas(env, metering_set_data_const)
  IN IF g.err # NoErr THEN Bail(g.err, g.env, ifc, << >>)
     ELSE IF ~g.env.memory THEN Bail(ErrNoMemory, g.env, ifc, << >>)
     ELSE LET k == read_string_and_sub_gas(g.env, key, metering_set_data_key_mult)
          IN IF k.err # NoErr THEN Bail(k.err, k.env, ifc, << >>)
             ELSE LET v == read_string_and_sub_gas(k.env, value,
                                                   metering_set_data_value_mult)
                  IN IF v.err # NoErr THEN Bail(v.err, v.env, ifc, << >>)
                     ELSE LET r == raw_set_data(ifc, k.val, v.val, ok)
                              calls == <<Invoked("raw_set_data", <<k.val, v.val>>)>>
                          IN IF r.err # NoErr THEN Bail(r.err, v.env, r.iface, calls)
                             ELSE Ok(v.env, r.iface, None, calls)

assembly_script_append_data(env, ifc, key, value, ok) ==
  LET g == sub_remaining_gas(env, metering_append_data_const)
  IN IF g.err # NoErr THEN Bail(g.err, g.env, ifc, << >>)
     ELSE IF ~g.env.memory THEN Bail(ErrNoMemory, g.env, ifc, << >>)
     ELSE LET k == read_string_and_sub_gas(g.env, key, metering_append_data_key_mult)
          IN IF k.err # NoErr THEN Bail(k.err, k.env, ifc, << >>)
             ELSE LET v == read_string_and_sub_gas(k.env, value,
                                                   metering_append_data_value_mult)
                  IN IF v.err # NoErr THEN Bail(v.err, v.env, ifc, << >>)
                     ELSE LET r == raw_append_data(ifc, k.val, v.val, ok)
                              calls == <<Invoked("raw_append_data", <<k.val, v.val>>)>>
                          IN IF r.err # NoErr THEN Bail(r.err, v.env, r.iface, calls)
                             ELSE Ok(v.env, r.iface, None, calls)

(***************************************************************************)
(* Variant of get_data that does not bill the returned value.              *)
(***************************************************************************)
assembly_script_get_data_unbilled_result(env, ifc, key, ok, alloc_ok) ==
  LET g == sub_remaining_gas(env, metering_get_data_const)
  IN IF g.err # NoErr THEN Bail(g.err, g.env, ifc, << >>)
     ELSE IF ~g.env.memory THEN Bail(ErrNoMemory, g.env, ifc, << >>)
     ELSE LET k == read_string_and_sub_gas(g.env, key, metering_get_data_key_mult)
          IN IF k.err # NoErr THEN Bail(k.err, k.env, ifc, << >>)
             ELSE LET r == raw_get_data(ifc, k.val, ok)
                      calls == <<Invoked("raw_get_data", <<k.val>>)>>
                  IN IF r.err # NoErr THEN Bail(r.err, k.env, r.iface, calls)
                     ELSE IF ~alloc_ok
                     THEN Bail(ErrAlloc, k.env, r.iface, calls)
                     ELSE Ok(k.env, r.iface, Some(r.val), calls)

assembly_script_get_data(env, ifc, key, ok, alloc_ok) ==
  LET g == sub_remaining_gas(env, metering_get_data_const)
  IN IF g.err # NoErr THEN Bail(g.err, g.env, ifc, << >>)
     ELSE IF ~g.env.memory THEN Bail(ErrNoMemory, g.env, ifc, << >>)
     ELSE LET k == read_string_and_sub_gas(g.env, key, metering_get_data_key_mult)
          IN IF k.err # NoErr THEN Bail(k.err, k.env, ifc, << >>)
             ELSE LET r == raw_get_data(ifc, k.val, ok)
                      calls == <<Invoked("raw_get_data", <<k.val>>)>>
                  IN IF r.err # NoErr THEN Bail(r.err, k.env, r.iface, calls)
                     ELSE LET c == sub_remaining_gas_with_mult(
                                     k.env, str_len(r.val),
                                     metering_get_data_value_mult)
                          IN IF c.err # NoErr THEN Bail(c.err, c.env, r.iface, calls)
                             ELSE IF ~alloc_ok
                             THEN Bail(ErrAlloc, c.env, r.iface, calls)
                             ELSE Ok(c.env, r.iface, Some(r.val), calls)

assembly_script_has_data(env, ifc, key, ok) ==
  LET g == sub_remaining_gas(env, metering_has_data_const)
  IN IF g.err # NoErr THEN Bail(g.err, g.env, ifc, << >>)
     ELSE IF ~g.env.memory THEN Bail(ErrNoMemory, g.env, ifc, << >>)
     ELSE LET k == read_string_and_sub_gas(g.env, key, metering_has_data_key_mult)
          IN IF k.err # NoErr THEN Bail(k.err, k.env, ifc, << >>)
             ELSE LET r == has_data(ifc, k.val, ok)
                      calls == <<Invoked("has_data", <<k.val>>)>>
                  IN IF r.err # NoErr THEN Bail(r.err, k.env, r.iface, calls)
                     ELSE Ok(k.env, r.iface, Some(IF r.val THEN 1 ELSE 0), calls)

assembly_script_delete_data(env, ifc, key, ok) ==
  LET g == sub_remaining_gas(env, metering_delete_data_const)
  IN IF g.err # NoErr THEN Bail(g.err, g.env, ifc, << >>)
     ELSE IF ~g.env.memory THEN Bail(ErrNoMemory, g.env, ifc, << >>)
     ELSE LET k == read_string_and_sub_gas(g.env, key, metering_delete_data_key_mult)
          IN IF k.err # NoErr THEN Bail(k.err, k.env, ifc, << >>)
             ELSE LET r == raw_delete_data(ifc, k.val, ok)
                      calls == <<Invoked("raw_delete_data", <<k.val>>)>>
                  IN IF r.err # NoErr THEN Bail(r.err, k.env, r.iface, calls)
                     ELSE Ok(k.env, r.iface, None, calls)

(***************************************************************************)
(* Variant of set_data_for that writes to the current address.             *)
(***************************************************************************)
assembly_script_set_data_for_self(env, ifc, address, key, value, ok) ==
  IF get_string(address).err # NoErr
  THEN Bail(ErrRead, env, ifc, << >>)
  ELSE assembly_script_set_data(env, ifc, key, value, ok)

assembly_script_set_data_for(env, ifc, address, key, value, ok) ==
  LET g == sub_remaining_gas(env, metering_set_data_const)
  IN IF g.err # NoErr THEN Bail(g.err, g.env, ifc, << >>)
     ELSE IF ~g.env.memory THEN Bail(ErrNoMemory, g.env, ifc, << >>)
     ELSE LET k == read_string_and_sub_gas(g.env, key, metering_set_data_key_mult)
          IN IF k.err # NoErr THEN Bail(k.err, k.env, ifc, << >>)
             ELSE LET v == read_string_and_sub_gas(k.env, value,
                                                   metering_set_data_value_mult)
                  IN IF v.err # NoErr THEN Bail(v.err, v.env, ifc, << >>)
                     ELSE IF get_string(address).err # NoErr
                     THEN Bail(ErrRead, v.env, ifc, << >>)
                     ELSE LET a == get_string(address).val
                              r == raw_set_data_for(ifc, a, k.val, v.val, ok)
                              calls == <<Invoked("raw_set_data_for",
                                                 <<a, k.val, v.val>>)>>
                          IN IF r.err # NoErr THEN Bail(r.err, v.env, r.iface, calls)
                             ELSE Ok(v.env, r.iface, None, calls)

assembly_script_append_data_for(env, ifc, address, key, value, ok) ==
  LET g == sub_remaining_gas(env, metering_append_data_const)
  IN IF g.err # NoErr THEN Bail(g.err, g.env, ifc, << >>)
     ELSE IF ~g.env.memory THEN Bail(ErrNoMemory, g.env, ifc, << >>)
     ELSE LET k == read_string_and_sub_gas(g.env, key, metering_append_data_key_mult)
          IN IF k.err # NoErr THEN Bail(k.err, k.env, ifc, << >>)
             ELSE LET v == read_string_and_sub_gas(k.env, value,
                                                   metering_append_data_value_mult)
                  IN IF v.err # NoErr THEN Bail(v.err, v.env, ifc, << >>)
                     ELSE IF get_string(address).err # NoErr
                     THEN Bail(ErrRead, v.env, ifc, << >>)
                     ELSE LET a == get_string(address).val
                              r == raw_append_data_for(ifc, a, k.val, v.val, ok)
                              calls == <<Invoked("raw_append_data_for",
                                                 <<a, k.val, v.val>>)>>
                          IN IF r.err # NoErr THEN Bail(r.err, v.env, r.iface, calls)
                             ELSE Ok(v.env, r.iface, None, calls)

assembly_script_get_data_for(env, ifc, address, key, ok, alloc_ok) ==
  LET g == sub_remaining_gas(env, metering_get_data_const)
  IN IF g.err # NoErr THEN Bail(g.err, g.env, ifc, << >>)
     ELSE IF ~g.env.memory THEN Bail(ErrNoMemory, g.env, ifc, << >>)
     ELSE IF get_string(address).err # NoErr
     THEN Bail(ErrRead, g.env, ifc, << >>)
     ELSE LET a == get_string(address).val
              k == read_string_and_sub_gas(g.env, key, metering_get_data_key_mult)
          IN IF k.err # NoErr THEN Bail(k.err, k.env, ifc, << >>)
             ELSE LET r == raw_get_data_for(ifc, a, k.val, ok)
                      calls == <<Invoked("raw_get_data_for", <<a, k.val>>)>>
                  IN IF r.err # NoErr THEN Bail(r.err, k.env, r.iface, calls)
                     ELSE LET c == sub_remaining_gas_with_mult(
                                     k.env, str_len(r.val),
                                     metering_get_data_value_mult)
                          IN IF c.err # NoErr THEN Bail(c.err, c.env, r.iface, calls)
                             ELSE IF ~alloc_ok
                             THEN Bail(ErrAlloc, c.env, r.iface, calls)
                             ELSE Ok(c.env, r.iface, Some(r.val), calls)

assembly_script_delete_data_for(env, ifc, address, key, ok) ==
  LET g == sub_remaining_gas(env, metering_delete_data_const)
  IN IF g.err # NoErr THEN Bail(g.err, g.env, ifc, << >>)
     ELSE IF ~g.env.memory THEN Bail(ErrNoMemory, g.env, ifc, << >>)
     ELSE IF get_string(address).err # NoErr
     THEN Bail(ErrRead, g.env, ifc, << >>)
     ELSE LET a == get_string(address).val
              k == read_string_and_sub_gas(g.env, key, metering_delete_data_key_mult)
          IN IF k.err # NoErr THEN Bail(k.err, k.env, ifc, << >>)
             ELSE LET r == raw_delete_data_for(ifc, a, k.val, ok)
                      calls == <<Invoked("raw_delete_data_for", <<a, k.val>>)>>
                  IN IF r.err # NoErr THEN Bail(r.err, k.env, r.iface, calls)
                     ELSE Ok(k.env, r.iface, None, calls)

assembly_script_has_data_for(env, ifc, address, key, ok) ==
  LET g == sub_remaining_gas(env, metering_has_data_const)
  IN IF g.err # NoErr THEN Bail(g.err, g.env, ifc, << >>)
     ELSE IF ~g.env.memory THEN Bail(ErrNoMemory, g.env, ifc, << >>)
     ELSE IF get_string(address).err # NoErr
     THEN Bail(ErrRead, g.env, ifc, << >>)
     ELSE LET a == get_string(address).val
              k == read_string_and_sub_gas(g.env, key, metering_has_data_key_mult)
          IN IF k.err # NoErr THEN Bail(k.err, k.env, ifc, << >>)
             ELSE LET r == has_data_for(ifc, a, k.val, ok)
                      calls == <<Invoked("has_data_for", <<a, k.val>>)>>
                  IN IF r.err # NoErr THEN Bail(r.err, k.env, r.iface, calls)
                     ELSE Ok(k.env, r.iface, Some(IF r.val THEN 1 ELSE 0), calls)

(***************************************************************************)
(* Gas query, printing, hashing, events, keys and the context getters.     *)
(* join is data.join(";"), to_json is serde_json::to_string on a list of   *)
(* strings that need no escaping.                                          *)
(***************************************************************************)
RECURSIVE join(_, _)
join(items, sep) ==
  IF items = << >> THEN ""
  ELSE IF Len(items) = 1 THEN items[1]
  ELSE items[1] \o sep \o join(Tail(items), sep)

RECURSIVE quoted(_)
quoted(items) ==
  IF items = << >> THEN << >>
  ELSE <<"\"" \o items[1] \o "\"">> \o quoted(Tail(items))

to_json(items) == "[" \o join(quoted(items), ",") \o "]"

assembly_script_get_remaining_gas(env, ifc) ==
  LET g == sub_remaining_gas(env, metering_remaining_gas)
  IN IF g.err # NoErr THEN Bail(g.err, g.env, ifc, << >>)
     ELSE LET left == get_remaining_points(g.env)
          IN IF left.err # NoErr THEN Bail(left.err, g.env, ifc, << >>)
             ELSE Ok(g.env, ifc, Some(u64_to_i64(left.val)), << >>)

assembly_script_print(env, ifc, arg, ok) ==
  LET g == sub_remaining_gas(env, metering_print)
  IN IF g.err # NoErr THEN Bail(g.err, g.env, ifc, << >>)
     ELSE IF ~g.env.memory THEN Bail(ErrNoMemory, g.env, ifc, << >>)
     ELSE IF get_string(arg).err # NoErr THEN Bail(ErrRead, g.env, ifc, << >>)
     ELSE LET r == print(ifc, get_string(arg).val, ok)
              calls == <<Invoked("print", <<get_string(arg).val>>)>>
          IN IF r.err # NoErr THEN Bail(r.err, g.env, r.iface, calls)
             ELSE Ok(g.env, r.iface, None, calls)

(***************************************************************************)
(* Variant of hash that bills the bytes after the Interface has hashed     *)
(* them.                                                                   *)
(***************************************************************************)
assembly_script_hash_late_charge(env, ifc, value, ok, alloc_ok) ==
  LET g == sub_remaining_gas(env, metering_hash_const)
  IN IF g.err # NoErr THEN Bail(g.err, g.env, ifc, << >>)
     ELSE IF ~g.env.memory THEN Bail(ErrNoMemory, g.env, ifc, << >>)
     ELSE IF get_string(value).err # NoErr THEN Bail(ErrRead, g.env, ifc, << >>)
     ELSE LET h == hash(ifc, get_string(value).val, ok)
              calls == <<Invoked("hash", <<get_string(value).val>>)>>
              v == read_string_and_sub_gas(g.env, value, metering_hash_per_byte)
          IN IF h.err # NoErr THEN Bail(h.err, g.env, h.iface, calls)
             ELSE IF v.err # NoErr THEN Bail(v.err, v.env, h.iface, calls)
             ELSE IF ~alloc_ok THEN Bail(ErrAlloc, v.env, h.iface, calls)
             ELSE Ok(v.env, h.iface, Some(h.val), calls)

assembly_script_hash(env, ifc, value, ok, alloc_ok) ==
  LET g == sub_remaining_gas(env, metering_hash_const)
  IN IF g.err # NoErr THEN Bail(g.err, g.env, ifc, << >>)
     ELSE IF ~g.env.memory THEN Bail(ErrNoMemory, g.env, ifc, << >>)
     ELSE LET v == read_string_and_sub_gas(g.env, value, metering_hash_per_byte)
          IN IF v.err # NoErr THEN Bail(v.err, v.env, ifc, << >>)
             ELSE LET h == hash(ifc, v.val, ok)
                      calls == <<Invoked("hash", <<v.val>>)>>
                  IN IF h.err # NoErr THEN Bail(h.err, v.env, h.iface, calls)
                     ELSE IF ~alloc_ok THEN Bail(ErrAlloc, v.env, h.iface, calls)
                     ELSE Ok(v.env, h.iface, Some(h.val), calls)

assembly_script_get_owned_addresses_raw(env, ifc, ok, alloc_ok) ==
  LET g == sub_remaining_gas(env, metering_get_owned_addrs)
  IN IF g.err # NoErr THEN Bail(g.err, g.env, ifc, << >>)
     ELSE LET data == get_owned_addresses(ifc, ok)
              calls == <<Invoked("get_owned_addresses", << >>)>>
          IN IF data.err # NoErr THEN Bail(data.err, g.env, data.iface, calls)
             ELSE IF ~alloc_ok THEN Bail(ErrAlloc, g.env, data.iface, calls)
             ELSE Ok(g.env, data.iface, Some(join(data.val, ";")), calls)

assembly_script_get_call_stack_raw(env, ifc, ok, alloc_ok) ==
  LET g == sub_remaining_gas(env, metering_get_call_stack)
  IN IF g.err # NoErr THEN Bail(g.err, g.env, ifc, << >>)
     ELSE LET data == get_call_stack(ifc, ok)
              calls == <<Invoked("get_call_stack", << >>)>>
          IN IF data.err # NoErr THEN Bail(data.err, g.env, data.iface, calls)
             ELSE IF ~alloc_ok THEN Bail(ErrAlloc, g.env, data.iface, calls)
             ELSE Ok(g.env, data.iface, Some(join(data.val, ";")), calls)

assembly_script_get_owned_addresses(env, ifc, ok, alloc_ok) ==
  LET g == sub_remaining_gas(env, metering_get_owned_addrs)
  IN IF g.err # NoErr THEN Bail(g.err, g.env, ifc, << >>)
     ELSE LET data == get_owned_addresses(ifc, ok)
              calls == <<Invoked("get_owned_addresses", << >>)>>
          IN IF data.err # NoErr THEN Bail(data.err, g.env, data.iface, calls)
             ELSE IF ~alloc_ok THEN Bail(ErrAlloc, g.env, data.iface, calls)
             ELSE Ok(g.env, data.iface, Some(to_json(data.val)), calls)

assembly_script_get_call_stack(env, ifc, ok, alloc_ok) ==
  LET g == sub_remaining_gas(env, metering_get_call_stack)
  IN IF g.err # NoErr THEN Bail(g.err, g.env, ifc, << >>)
     ELSE LET data == get_call_stack(ifc, ok)
              calls == <<Invoked("get_call_stack", << >>)>>
          IN IF data.err # NoErr THEN Bail(data.err, g.env, data.iface, calls)
             ELSE IF ~alloc_ok THEN Bail(ErrAlloc, g.env, data.iface, calls)
             ELSE Ok(g.env, data.iface, Some(to_json(data.val)), calls)

assembly_script_generate_event(env, ifc, event, ok) ==
  LET g == sub_remaining_gas(env, metering_generate_event)
  IN IF g.err # NoErr THEN Bail(g.err, g.env, ifc, << >>)
     ELSE IF ~g.env.memory THEN Bail(ErrNoMemory, g.env, ifc, << >>)
     ELSE IF get_string(event).err # NoErr THEN Bail(ErrRead, g.env, ifc, << >>)
     ELSE LET r == generate_event(ifc, get_string(event).val, ok)
              calls == <<Invoked("generate_event", <<get_string(event).val>>)>>
          IN IF r.err # NoErr THEN Bail(r.err, g.env, r.iface, calls)
             ELSE Ok(g.env, r.iface, None, calls)

assembly_script_address_from_public_key(env, ifc, public_key, alloc_ok) ==
  LET g == sub_remaining_gas(env, metering_address_from_public_key)
  IN IF g.err # NoErr THEN Bail(g.err, g.env, ifc, << >>)
     ELSE IF ~g.env.memory THEN Bail(ErrNoMemory, g.env, ifc, << >>)
     ELSE IF get_string(public_key).err # NoErr
     THEN Bail(ErrRead, g.env, ifc, << >>)
     ELSE LET pk == get_string(public_key).val
              r == address_from_public_key(ifc, pk)
              calls == <<Invoked("address_from_public_key", <<pk>>)>>
          IN IF r.err # NoErr THEN Bail(r.err, g.env, r.iface, calls)
             ELSE IF ~alloc_ok THEN Bail(ErrAlloc, g.env, r.iface, calls)
             ELSE Ok(g.env, r.iface, Some(r.val), calls)

assembly_script_unsafe_random(env, ifc, rnd, ok) ==
  LET g == sub_remaining_gas(env, metering_unsafe_random)
  IN IF g.err # NoErr THEN Bail(g.err, g.env, ifc, << >>)
     ELSE LET r == unsafe_random(ifc, rnd, ok)
              calls == <<Invoked("unsafe_random", << >>)>>
          IN IF r.err # NoErr THEN Bail(r.err, g.env, r.iface, calls)
             ELSE Ok(g.env, r.iface, Some(r.val), calls)

assembly_script_get_time(env, ifc, time, ok) ==
  LET g == sub_remaining_gas(env, metering_get_time)
  IN IF g.err # NoErr THEN Bail(g.err, g.env, ifc, << >>)
     ELSE LET r == get_time(ifc, time, ok)
              calls == <<Invoked("get_time", << >>)>>
          IN IF r.err # NoErr THEN Bail(r.err, g.env, r.iface, calls)
             ELSE Ok(g.env, r.iface, Some(u64_to_i64(r.val)), calls)

assembly_script_get_current_period(env, ifc, period, ok) ==
  LET g == sub_remaining_gas(env, metering_get_current_period)
  IN IF g.err # NoErr THEN Bail(g.err, g.env, ifc, << >>)
     ELSE LET r == get_current_period(ifc, period, ok)
              calls == <<Invoked("get_current_period", << >>)>>
          IN IF r.err # NoErr THEN Bail(r.err, g.env, r.iface, calls)
             ELSE Ok(g.env, r.iface, Some(u64_to_i64(r.val)), calls)

assembly_script_get_current_thread(env, ifc, thread, ok) ==
  LET g == sub_remaining_gas(env, metering_get_current_thread)
  IN IF g.err # NoErr THEN Bail(g.err, g.env, ifc, << >>)
     ELSE LET r == get_current_thread(ifc, thread, ok)
              calls == <<Invoked("get_current_thread", << >>)>>
          IN IF r.err # NoErr THEN Bail(r.err, g.env, r.iface, calls)
             ELSE Ok(g.env, r.iface, Some(r.val), calls)

(***************************************************************************)
(* Module lifecycle.  base64::decode on the payloads in play: the empty    *)
(* string decodes to no byte, "QQ==" to the byte 65, "AAE=" to the bytes   *)
(* 0 and 1; text outside the alphabet or of a wrong length is rejected.    *)
(***************************************************************************)
ErrBase64 == "Invalid byte"
base64_decode(s) ==
  CASE s = "" -> [err |-> NoErr, val |-> << >>]
    [] s = "QQ==" -> [err |-> NoErr, val |-> <<65>>]
    [] s = "AAE=" -> [err |-> NoErr, val |-> <<0, 1>>]
    [] OTHER -> [err |-> ErrBase64, val |-> << >>]

create_sc(ifc, bytecode, address, ok) ==
  create_module(ifc, bytecode, address, ok)

assembly_script_create_sc(env, ifc, bytecode, address, ok, alloc_ok) ==
  IF ~env.memory THEN Bail(ErrNoMemory, env, ifc, << >>)
  ELSE LET b == read_string_and_sub_gas(env, bytecode, metering_create_sc_mult)
       IN IF b.err # NoErr THEN Bail(b.err, b.env, ifc, << >>)
          ELSE LET d == base64_decode(b.val)
               IN IF d.err # NoErr THEN Bail(d.err, b.env, ifc, << >>)
                  ELSE LET r == create_sc(ifc, d.val, address, ok)
                           calls == <<Invoked("create_module", <<d.val>>)>>
                       IN IF r.err # NoErr THEN Bail(r.err, b.env, r.iface, calls)
                          ELSE IF ~alloc_ok
                          THEN Bail(ErrAlloc, b.env, r.iface, calls)
                          ELSE Ok(b.env, r.iface, Some(r.val), calls)

assembly_script_set_bytecode_for(env, ifc, address, bytecode_base64, ok) ==
  LET g == sub_remaining_gas(env, metering_set_bytecode_const)
  IN IF g.err # NoErr THEN Bail(g.err, g.env, ifc, << >>)
     ELSE IF ~g.env.memory THEN Bail(ErrNoMemory, g.env, ifc, << >>)
     ELSE IF get_string(address).err # NoErr
     THEN Bail(ErrRead, g.env, ifc, << >>)
     ELSE LET b == read_string_and_sub_gas(g.env, bytecode_base64,
                                           metering_set_bytecode_mult)
          IN IF b.err # NoErr THEN Bail(b.err, b.env, ifc, << >>)
             ELSE LET d == base64_decode(b.val)
                  IN IF d.err # NoErr THEN Bail(d.err, b.env, ifc, << >>)
                     ELSE LET a == get_string(address).val
                              r == raw_set_bytecode_for(ifc, a, d.val, ok)
                              calls == <<Invoked("raw_set_bytecode_for",
                                                 <<a, d.val>>)>>
                          IN IF r.err # NoErr THEN Bail(r.err, b.env, r.iface, calls)
                             ELSE Ok(b.env, r.iface, None, calls)

assembly_script_set_bytecode_lenient(env, ifc, bytecode_base64, ok) ==
  LET g == sub_remaining_gas(env, metering_set_bytecode_const)
  IN IF g.err # NoErr THEN Bail(g.err, g.env, ifc, << >>)
     ELSE IF ~g.env.memory THEN Bail(ErrNoMemory, g.env, ifc, << >>)
     ELSE LET b == read_string_and_sub_gas(g.env, bytecode_base64,
                                           metering_set_bytecode_mult)
          IN IF b.err # NoErr THEN Bail(b.err, b.env, ifc, << >>)
             ELSE LET d == base64_decode(b.val)
                      r == raw_set_bytecode(ifc, d.val, ok)
                      calls == <<Invoked("raw_set_bytecode", <<d.val>>)>>
                  IN IF d.err # NoErr THEN Bail(d.err, b.env, r.iface, calls)
                     ELSE IF r.err # NoErr THEN Bail(r.err, b.env, r.iface, calls)
                     ELSE Ok(b.env, r.iface, None, calls)

assembly_script_set_bytecode(env, ifc, bytecode_base64, ok) ==
  LET g == sub_remaining_gas(env, metering_set_bytecode_const)
  IN IF g.err # NoErr THEN Bail(g.err, g.env, ifc, << >>)
     ELSE IF ~g.env.memory THEN Bail(ErrNoMemory, g.env, ifc, << >>)
     ELSE LET b == read_string_and_sub_gas(g.env, bytecode_base64,
                                           metering_set_bytecode_mult)
          IN IF b.err # NoErr THEN Bail(b.err, b.env, ifc, << >>)
             ELSE LET d == base64_decode(b.val)
                  IN IF d.err # NoErr THEN Bail(d.err, b.env, ifc, << >>)
                     ELSE LET r == raw_set_bytecode(ifc, d.val, ok)
                              calls == <<Invoked("raw_set_bytecode", <<d.val>>)>>
                          IN IF r.err # NoErr THEN Bail(r.err, b.env, r.iface, calls)
                             ELSE Ok(b.env, r.iface, None, calls)

(***************************************************************************)
(* Inter-contract call.  call_module runs the callee to completion inside  *)
(* crate::execution_impl::exec; the part before exec and the part after    *)
(* it are two operators, the callee's own steps lying between them.        *)
(***************************************************************************)
ErrAllocResponse == "Cannot allocate response in call"

CallRes(err, env, ifc, calls, gas) ==
  [err |-> err, env |-> env, iface |-> ifc, calls |-> calls, gas |-> gas]

(***************************************************************************)
(* Variants of call_module before exec: one hands the interpreter the      *)
(* guest's own number instead of the ledger's, one widens the coins        *)
(* without looking at their sign, one runs the callee whatever init_call   *)
(* answered.                                                               *)
(***************************************************************************)
call_module_begin_guest_cap(env, ifc, address, function, param, raw_coins, ok) ==
  IF raw_coins < 0
  THEN CallRes(ErrNegativeCall, env, ifc, << >>, 0)
  ELSE LET module == init_call(ifc, address, raw_coins, ok)
           calls == <<Invoked("init_call", <<address, raw_coins>>)>>
       IN IF module.err # NoErr
          THEN CallRes(module.err, env, module.iface, calls, 0)
          ELSE CallRes(NoErr, env, module.iface, calls, raw_coins)

call_module_begin_unchecked_coins(env, ifc, address, function, param, raw_coins, ok) ==
  LET module == init_call(ifc, address, i64_to_u64(raw_coins), ok)
      calls == <<Invoked("init_call", <<address, i64_to_u64(raw_coins)>>)>>
      limit == get_remaining_points(env)
  IN IF module.err # NoErr
     THEN CallRes(module.err, env, module.iface, calls, 0)
     ELSE IF limit.err # NoErr
     THEN CallRes(limit.err, env, module.iface, calls, 0)
     ELSE CallRes(NoErr, env, module.iface, calls, limit.val)

call_module_begin_unresolved(env, ifc, address, function, param, raw_coins, ok) ==
  IF raw_coins < 0
  THEN CallRes(ErrNegativeCall, env, ifc, << >>, 0)
  ELSE LET module == init_call(ifc, address, raw_coins, ok)
           calls == <<Invoked("init_call", <<address, raw_coins>>)>>
           limit == get_remaining_points(env)
       IN IF limit.err # NoErr
          THEN CallRes(limit.err, env, module.iface, calls, 0)
          ELSE CallRes(NoErr, env, module.iface, calls, limit.val)

call_module_begin(env, ifc, address, function, param, raw_coins, ok) ==
  IF raw_coins < 0
  THEN CallRes(ErrNegativeCall, env, ifc, << >>, 0)
  ELSE LET module == init_call(ifc, address, raw_coins, ok)
           calls == <<Invoked("init_call", <<address, raw_coins>>)>>
       IN IF module.err # NoErr
          THEN CallRes(module.err, env, module.iface, calls, 0)
          ELSE LET limit == get_remaining_points(env)
               IN IF limit.err # NoErr
                  THEN CallRes(limit.err, env, module.iface, calls, 0)
                  ELSE CallRes(NoErr, env, module.iface, calls, limit.val)

(***************************************************************************)
(* Variant of call_module after exec that credits the leftover on top of   *)
(* what the caller still holds.                                            *)
(***************************************************************************)
call_module_end_credit(env, ifc, resp, calls, ok) ==
  IF resp.err # NoErr
  THEN Bail(resp.err, env, ifc, calls)
  ELSE LET held == get_remaining_points(env).val
           sum == IF held + resp.remaining_gas > U64Max THEN U64Max
                  ELSE held + resp.remaining_gas
           s == set_remaining_points(env, sum)
           f == finish_call(ifc, ok)
           calls2 == Append(calls, Invoked("finish_call", << >>))
       IN IF f.err # NoErr
          THEN Bail(f.err, s.env, f.iface, calls2)
          ELSE Ok(s.env, f.iface, Some(resp.ret), calls2)

(***************************************************************************)
(* Variant of call_module after exec that answers a failed execution with  *)
(* an empty result.                                                        *)
(***************************************************************************)
call_module_end_swallow(env, ifc, resp, calls, ok) ==
  LET s == set_remaining_points(env, resp.remaining_gas)
  IN IF s.err # NoErr
     THEN Bail(s.err, s.env, ifc, calls)
     ELSE LET f == finish_call(ifc, ok)
              calls2 == Append(calls, Invoked("finish_call", << >>))
          IN IF f.err # NoErr
             THEN Bail(f.err, s.env, f.iface, calls2)
             ELSE Ok(s.env, f.iface, Some(resp.ret), calls2)

(***************************************************************************)
(* Variant of call_module after exec that closes the call on the           *)
(* Interface before it writes the leftover.                                *)
(***************************************************************************)
call_module_end_finish_first(env, ifc, resp, calls, ok) ==
  IF resp.err # NoErr
  THEN Bail(resp.err, env, ifc, calls)
  ELSE LET f == finish_call(ifc, ok)
           calls2 == Append(calls, Invoked("finish_call", << >>))
       IN IF f.err # NoErr
          THEN Bail(f.err, env, f.iface, calls2)
          ELSE LET s == set_remaining_points(env, resp.remaining_gas)
               IN IF s.err # NoErr
                  THEN Bail(s.err, s.env, f.iface, calls2)
                  ELSE Ok(s.env, f.iface, Some(resp.ret), calls2)

(***************************************************************************)
(* Variant of call_module after exec that closes the call on the           *)
(* Interface when the execution failed, before reporting the failure.      *)
(***************************************************************************)
call_module_end_unwind(env, ifc, resp, calls, ok) ==
  IF resp.err # NoErr
  THEN LET f == finish_call(ifc, ok)
       IN Bail(resp.err, env, f.iface,
               Append(calls, Invoked("finish_call", << >>)))
  ELSE LET s == set_remaining_points(env, resp.remaining_gas)
       IN IF s.err # NoErr
          THEN Bail(s.err, s.env, ifc, calls)
          ELSE LET f == finish_call(ifc, ok)
                   calls2 == Append(calls, Invoked("finish_call", << >>))
               IN IF f.err # NoErr
                  THEN Bail(f.err, s.env, f.iface, calls2)
                  ELSE Ok(s.env, f.iface, Some(resp.ret), calls2)

call_module_end(env, ifc, resp, calls, ok) ==
  IF resp.err # NoErr
  THEN Bail(resp.err, env, ifc, calls)
  ELSE LET s == set_remaining_points(env, resp.remaining_gas)
       IN IF s.err # NoErr
          THEN Bail(s.err, s.env, ifc, calls)
          ELSE LET f == finish_call(ifc, ok)
                   calls2 == Append(calls, Invoked("finish_call", << >>))
               IN IF f.err # NoErr
                  THEN Bail(f.err, s.env, f.iface, calls2)
                  ELSE Ok(s.env, f.iface, Some(resp.ret), calls2)

(***************************************************************************)
(* Variant of assembly_script_call_module that starts the call without     *)
(* charging for it.                                                        *)
(***************************************************************************)
assembly_script_call_module_begin_uncharged(env, ifc, address, function, param, call_coins, ok) ==
  IF ~env.memory THEN CallRes(ErrNoMemory, env, ifc, << >>, 0)
  ELSE IF get_string(address).err # NoErr
  THEN CallRes(ErrRead, env, ifc, << >>, 0)
  ELSE IF get_string(function).err # NoErr
  THEN CallRes(ErrRead, env, ifc, << >>, 0)
  ELSE IF get_string(param).err # NoErr
  THEN CallRes(ErrRead, env, ifc, << >>, 0)
  ELSE call_module_begin(env, ifc, get_string(address).val,
                         get_string(function).val, get_string(param).val,
                         call_coins, ok)

assembly_script_call_module_begin(env, ifc, address, function, param, call_coins, ok) ==
  LET g == sub_remaining_gas(env, metering_call)
  IN IF g.err # NoErr THEN CallRes(g.err, g.env, ifc, << >>, 0)
     ELSE IF ~g.env.memory THEN CallRes(ErrNoMemory, g.env, ifc, << >>, 0)
     ELSE IF get_string(address).err # NoErr
     THEN CallRes(ErrRead, g.env, ifc, << >>, 0)
     ELSE IF get_string(function).err # NoErr
     THEN CallRes(ErrRead, g.env, ifc, << >>, 0)
     ELSE IF get_string(param).err # NoErr
     THEN CallRes(ErrRead, g.env, ifc, << >>, 0)
     ELSE call_module_begin(g.env, ifc, get_string(address).val,
                            get_string(function).val, get_string(param).val,
                            call_coins, ok)

assembly_script_call_module_end(env, ifc, resp, calls, finish_ok, alloc_ok) ==
  LET response == call_module_end(env, ifc, resp, calls, finish_ok)
  IN IF response.err # NoErr THEN response
     ELSE IF alloc_ok THEN response
     ELSE Bail(ErrAllocResponse, response.env, response.iface, response.calls)

(***************************************************************************)
(* The interpreter (crate::execution_impl::exec) and the instance it       *)
(* builds.  The metering middleware gives the instance its two globals,    *)
(* the counter starting at the limit; a guest step of cost c lowers the    *)
(* counter or, when it cannot, raises the flag and traps.  The Response    *)
(* of a completed run carries the leftover read from the instance.         *)
(***************************************************************************)
ErrSetup == "host env initialization error"
ErrMeterTrap == "unreachable"

Response(err, ret, remaining_gas) ==
  [err |-> err, ret |-> ret, remaining_gas |-> remaining_gas]

exec_response(env, ret) ==
  LET left == get_remaining_points(env)
  IN IF left.err # NoErr THEN Response(left.err, "", 0)
     ELSE Response(NoErr, ret, left.val)

ExportSets ==
  { [memory |-> m, remaining |-> r, exhausted |-> x] :
      m \in BOOLEAN, r \in BOOLEAN, x \in BOOLEAN }

metering_step(env, c) ==
  LET remaining == i64_to_u64(env.remaining_points[1])
  IN IF remaining >= c
     THEN [err |-> NoErr,
           env |-> [env EXCEPT !.remaining_points = Some(u64_to_i64(remaining - c))]]
     ELSE [err |-> ErrMeterTrap,
           env |-> [env EXCEPT !.exhausted_points = Some(1)]]

(***************************************************************************)
(* ASEnv::init_with_instance: memory first, then the two named globals;    *)
(* each lookup returns early on a missing export.                          *)
(***************************************************************************)
init_with_instance(env, exports, limit) ==
  IF ~exports.memory THEN [err |-> ErrSetup, env |-> env]
  ELSE LET e1 == [env EXCEPT !.memory = TRUE]
       IN IF ~exports.remaining THEN [err |-> ErrSetup, env |-> e1]
          ELSE LET e2 == [e1 EXCEPT !.remaining_points = Some(u64_to_i64(limit))]
               IN IF ~exports.exhausted THEN [err |-> ErrSetup, env |-> e2]
                  ELSE [err |-> NoErr,
                        env |-> [e2 EXCEPT !.exhausted_points = Some(0)]]

(***************************************************************************)
(* State.  stack is the chain of nested executions, the running one last;  *)
(* a frame holds the environment of its instance, its position, the gas    *)
(* limit its interpreter was given and, while it waits in a call, the      *)
(* context of that call.  iface is the Interface's state.  last records    *)
(* the host operation that has just completed (NoLast once the guest has   *)
(* moved on): its arguments, the environment before and after, its         *)
(* outcome and the Interface methods it invoked.  hist is the datastore    *)
(* as the guests' own successful set, append and delete invocations        *)
(* describe it: for each address and key set and not deleted since, the    *)
(* value written.                                                          *)
(***************************************************************************)
NoCtx == [args |-> << >>, pre |-> ASEnv_new, calls |-> << >>, gas |-> 0]
Frame(env, pc, limit, trap, ctx) ==
  [env |-> env, pc |-> pc, limit |-> limit, trap |-> trap, ctx |-> ctx]
NoLast ==
  [op |-> "none", args |-> << >>, pre |-> ASEnv_new, post |-> ASEnv_new,
   err |-> NoErr, ret |-> None, calls |-> << >>, aux |-> << >>]
Record(op, args, pre, r, aux) ==
  [op |-> op, args |-> args, pre |-> pre, post |-> r.env, err |-> r.err,
   ret |-> r.ret, calls |-> r.calls, aux |-> aux]

Depth == Len(stack)
Top == stack[Depth]
Running == Top.pc = "running"
After(r) ==
  [Top EXCEPT !.env = r.env,
              !.pc = IF r.err = NoErr THEN "running" ELSE "trapped",
              !.trap = r.err]

Init ==
  /\ stack = <<Frame(ASEnv_new, "new", U64Max, NoErr, NoCtx)>>
  /\ iface = Interface_new
  /\ last = NoLast
  /\ hist = NoData

(***************************************************************************)
(* Values the guest passes.                                                *)
(***************************************************************************)
MaxValueLen == 1
Amounts == {-1, 0, 1}
AddressPtrs == {BadPtr} \cup {Some(a) : a \in Addresses}
ToPtrs == {BadPtr, Some("A2")}
FromPtrs == {BadPtr, Some("A1")}
Rates == {0, 1, 2, UsizeMax}
NamePtrs == {BadPtr, Some("f")}
ParamPtrs == {Some("p")}
KeyPtrs == {Some("k"), Some("kk")}
ValuePtrs == {BadPtr, Some(""), Some("v")}
ForPtrs == {Some(a) : a \in Addresses}
DataPtrs == {BadPtr, Some("d"), Some("")}
SignaturePtrs == {BadPtr, Some("sg"), Some("sx"), Some("??")}
PublicKeyPtrs == {BadPtr, Some("pk"), Some("??")}
Periods == {-1, 0}
Threads == {-1, U8Max, U8Max + 1}
MessageNumbers ==
  [validity_start_period : Periods, validity_start_thread : Threads,
   validity_end_period : Periods, validity_end_thread : Threads,
   max_gas : {-1, 0}, gas_price : {-1, 0}, raw_coins : {-1, 0}]
BytecodePtrs == {BadPtr, Some(""), Some("QQ=="), Some("AAE="), Some("?")}
MessagePtrs ==
  [target_address : {Some("A2")}, target_handler : NamePtrs, data : {Some("d")}]

(***************************************************************************)
(* Linking of the instance and the guest's own metered steps.              *)
(***************************************************************************)
InitWithInstance(exports) ==
  /\ Top.pc = "new"
  /\ LET r == init_with_instance(Top.env, exports, Top.limit)
     IN stack' = [stack EXCEPT ![Depth] =
                    [@ EXCEPT !.env = r.env,
                              !.pc = IF r.err = NoErr THEN "running"
                                     ELSE "setup_failed",
                              !.trap = r.err]]
  /\ last' = NoLast
  /\ UNCHANGED <<iface, hist>>

Meter(c) ==
  /\ Running
  /\ stack' = [stack EXCEPT ![Depth] = After(metering_step(Top.env, c))]
  /\ last' = NoLast
  /\ UNCHANGED <<iface, hist>>

(***************************************************************************)
(* A dispatch function invoked by the running guest: an error traps it.    *)
(***************************************************************************)
HistSet(cell, value) ==
  [c \in DOMAIN hist \cup {cell} |-> IF c = cell THEN value ELSE hist[c]]
HistDelete(cell) == [c \in DOMAIN hist \ {cell} |-> hist[c]]
HistAppend(cell, value) ==
  IF cell \in DOMAIN hist THEN HistSet(cell, hist[cell] \o value) ELSE hist
HistAfter(op, args, err) ==
  LET self == current_address(iface)
  IN IF err # NoErr THEN hist
     ELSE CASE op = "set_data" -> HistSet(<<self, args[1][1]>>, args[2][1])
            [] op = "set_data_for" ->
                 HistSet(<<args[1][1], args[2][1]>>, args[3][1])
            [] op = "append_data" -> HistAppend(<<self, args[1][1]>>, args[2][1])
            [] op = "append_data_for" ->
                 HistAppend(<<args[1][1], args[2][1]>>, args[3][1])
            [] op = "delete_data" -> HistDelete(<<self, args[1][1]>>)
            [] op = "delete_data_for" -> HistDelete(<<args[1][1], args[2][1]>>)
            [] OTHER -> hist

Abi(op, args, r) ==
  /\ stack' = [stack EXCEPT ![Depth] = After(r)]
  /\ iface' = r.iface
  /\ last' = Record(op, args, Top.env, r,
                    [self |-> current_address(iface), hist |-> hist])
  /\ hist' = HistAfter(op, args, r.err)

TransferCoins(to_address, raw_amount, ok) ==
  /\ Running
  /\ Abi("transfer_coins", <<to_address, raw_amount>>,
         assembly_script_transfer_coins(Top.env, iface, to_address, raw_amount, ok))

TransferCoinsFor(from_address, to_address, raw_amount, ok) ==
  /\ Running
  /\ Abi("transfer_coins_for", <<from_address, to_address, raw_amount>>,
         assembly_script_transfer_coins_for(Top.env, iface, from_address,
                                            to_address, raw_amount, ok))

SendMessage(p, n, ok) ==
  /\ Running
  /\ Abi("send_message", <<p, n>>,
         assembly_script_send_message(Top.env, iface, p, n, ok))

SignatureVerify(data, signature, public_key) ==
  /\ Running
  /\ Abi("signature_verify", <<data, signature, public_key>>,
         assembly_script_signature_verify(Top.env, iface, data, signature,
                                          public_key))

SetData(key, value, ok) ==
  /\ Running
  /\ Abi("set_data", <<key, value>>,
         assembly_script_set_data(Top.env, iface, key, value, ok))

AppendData(key, value, ok) ==
  /\ Running
  /\ Abi("append_data", <<key, value>>,
         assembly_script_append_data(Top.env, iface, key, value, ok))

GetData(key, ok, alloc_ok) ==
  /\ Running
  /\ Abi("get_data", <<key>>,
         assembly_script_get_data(Top.env, iface, key, ok, alloc_ok))

HasData(key, ok) ==
  /\ Running
  /\ Abi("has_data", <<key>>, assembly_script_has_data(Top.env, iface, key, ok))

DeleteData(key, ok) ==
  /\ Running
  /\ Abi("delete_data", <<key>>,
         assembly_script_delete_data(Top.env, iface, key, ok))

SetDataFor(address, key, value, ok) ==
  /\ Running
  /\ Abi("set_data_for", <<address, key, value>>,
         assembly_script_set_data_for(Top.env, iface, address, key, value, ok))

AppendDataFor(address, key, value, ok) ==
  /\ Running
  /\ Abi("append_data_for", <<address, key, value>>,
         assembly_script_append_data_for(Top.env, iface, address, key, value, ok))

GetDataFor(address, key, ok, alloc_ok) ==
  /\ Running
  /\ Abi("get_data_for", <<address, key>>,
         assembly_script_get_data_for(Top.env, iface, address, key, ok, alloc_ok))

HasDataFor(address, key, ok) ==
  /\ Running
  /\ Abi("has_data_for", <<address, key>>,
         assembly_script_has_data_for(Top.env, iface, address, key, ok))

DeleteDataFor(address, key, ok) ==
  /\ Running
  /\ Abi("delete_data_for", <<address, key>>,
         assembly_script_delete_data_for(Top.env, iface, address, key, ok))

(***************************************************************************)
(* call: either it fails before the interpreter starts, and traps the      *)
(* guest, or the callee's frame is pushed with the gas handed over as its  *)
(* limit.  The callee then ends by returning (CallReturn) or by a trap     *)
(* or a failed instantiation (CallFail), and the caller's call_module      *)
(* resumes with the interpreter's answer.                                  *)
(***************************************************************************)
CallWithin(cap, address, function, param, call_coins, ok) ==
  /\ Running
  /\ LET c == assembly_script_call_module_begin(Top.env, iface, address,
                                                function, param, call_coins, ok)
         args == <<address, function, param, call_coins>>
         ctx == [args |-> args, pre |-> Top.env, calls |-> c.calls, gas |-> c.gas]
     IN IF c.err # NoErr
        THEN Abi("call", args, Bail(c.err, c.env, c.iface, c.calls))
        ELSE /\ Depth < cap
             /\ stack' = Append([stack EXCEPT ![Depth] =
                                   [@ EXCEPT !.env = c.env, !.pc = "calling",
                                             !.ctx = ctx]],
                                Frame(ASEnv_new, "new", c.gas, NoErr, NoCtx))
             /\ iface' = c.iface
             /\ last' = NoLast
             /\ UNCHANGED hist

Call(address, function, param, call_coins, ok) ==
  CallWithin(MaxDepth, address, function, param, call_coins, ok)

Settle(resp, finish_ok, alloc_ok) ==
  LET caller == stack[Depth - 1]
      r == assembly_script_call_module_end(caller.env, iface, resp,
                                           caller.ctx.calls, finish_ok, alloc_ok)
  IN /\ stack' = [SubSeq(stack, 1, Depth - 1) EXCEPT ![Depth - 1] =
                    [caller EXCEPT !.env = r.env,
                                   !.pc = IF r.err = NoErr THEN "running"
                                          ELSE "trapped",
                                   !.trap = r.err,
                                   !.ctx = NoCtx]]
     /\ iface' = r.iface
     /\ last' = Record("call", caller.ctx.args, caller.ctx.pre, r,
                       [handed |-> caller.ctx.gas, resp |-> resp])
     /\ UNCHANGED hist

CallReturn(ret, finish_ok, alloc_ok) ==
  /\ Depth > 1
  /\ Running
  /\ Settle(exec_response(Top.env, ret), finish_ok, alloc_ok)

CallFail ==
  /\ Depth > 1
  /\ Top.pc \in {"trapped", "setup_failed"}
  /\ Settle(Response(Top.trap, "", 0), TRUE, TRUE)

(***************************************************************************)
(* The gas ledger called directly on the environment of the instance, in   *)
(* whatever state it is (unlinked, linked, exhausted).                     *)
(***************************************************************************)
Ledger(op, args, r, ret, aux) ==
  /\ stack' = [stack EXCEPT ![Depth] = [@ EXCEPT !.env = r.env]]
  /\ last' = [op |-> op, args |-> args, pre |-> Top.env, post |-> r.env,
              err |-> r.err, ret |-> ret, calls |-> << >>, aux |-> aux]
  /\ UNCHANGED <<iface, hist>>

GetRemainingPoints ==
  LET r == get_remaining_points(Top.env)
  IN Ledger("get_remaining_points", << >>, [err |-> r.err, env |-> Top.env],
            IF r.err = NoErr THEN Some(r.val) ELSE None, r.reads)

SetRemainingPoints(points) ==
  Ledger("set_remaining_points", <<points>>,
         set_remaining_points(Top.env, points), None, << >>)

SubRemainingGas(gas) ==
  Ledger("sub_remaining_gas", <<gas>>, sub_remaining_gas(Top.env, gas),
         None, << >>)

SubRemainingGasWithMult(a, b) ==
  Ledger("sub_remaining_gas_with_mult", <<a, b>>,
         sub_remaining_gas_with_mult(Top.env, a, b), None, << >>)

(***************************************************************************)
(* Spec: the call protocol and the coin functions.                         *)
(***************************************************************************)
Next ==
  \/ \E x \in ExportSets : InitWithInstance(x)
  \/ \E c \in 1 .. MaxOpCost : Meter(c)
  \/ \E to \in ToPtrs, a \in Amounts, ok \in BOOLEAN : TransferCoins(to, a, ok)
  \/ \E from \in FromPtrs, to \in ToPtrs, a \in Amounts, ok \in BOOLEAN :
        TransferCoinsFor(from, to, a, ok)
  \/ \E ad \in AddressPtrs, f \in NamePtrs, p \in ParamPtrs, a \in Amounts,
        ok \in BOOLEAN : Call(ad, f, p, a, ok)
  \/ \E ret \in {"r"}, fok \in BOOLEAN, aok \in BOOLEAN : CallReturn(ret, fok, aok)
  \/ CallFail

Spec == Init /\ [][Next]_vars

(***************************************************************************)
(* SpecGas: the gas ledger on one environment.                             *)
(***************************************************************************)
NextGas ==
  \/ \E x \in ExportSets : InitWithInstance(x)
  \/ \E c \in 1 .. MaxOpCost : Meter(c)
  \/ GetRemainingPoints
  \/ \E points \in U64 : SetRemainingPoints(points)
  \/ \E gas \in U64 : SubRemainingGas(gas)
  \/ \E a \in Usize, b \in Rates : SubRemainingGasWithMult(a, b)

SpecGas == Init /\ [][NextGas]_vars

(***************************************************************************)
(* SpecAbi: signature_verify and send_message on one instance.             *)
(***************************************************************************)
NextAbi ==
  \/ \E x \in ExportSets : InitWithInstance(x)
  \/ \E c \in 1 .. MaxOpCost : Meter(c)
  \/ \E d \in DataPtrs, sg \in SignaturePtrs, pk \in PublicKeyPtrs :
        SignatureVerify(d, sg, pk)
  \/ \E p \in MessagePtrs, n \in MessageNumbers, ok \in BOOLEAN :
        SendMessage(p, n, ok)

SpecAbi == Init /\ [][NextAbi]_vars

(***************************************************************************)
(* SpecCoins: the functions that report an amount of the ledger to the     *)
(* guest.  reported is the amount the Interface answers with.              *)
(***************************************************************************)
AbiReport(op, args, r, reported) ==
  /\ stack' = [stack EXCEPT ![Depth] = After(r)]
  /\ iface' = r.iface
  /\ last' = Record(op, args, Top.env, r, [reported |-> reported])
  /\ UNCHANGED hist

GetCallCoins(amount, ok) ==
  /\ Running
  /\ AbiReport("get_call_coins", << >>,
               assembly_script_get_call_coins(Top.env, iface, amount, ok), amount)

GetBalance(amount, ok) ==
  /\ Running
  /\ AbiReport("get_balance", << >>,
               assembly_script_get_balance(Top.env, iface, amount, ok), amount)

GetBalanceFor(address, amount, ok) ==
  /\ Running
  /\ AbiReport("get_balance_for", <<address>>,
               assembly_script_get_balance_for(Top.env, iface, address, amount,
                                               ok), amount)

NextCoins ==
  \/ \E x \in ExportSets : InitWithInstance(x)
  \/ \E c \in 1 .. MaxOpCost : Meter(c)
  \/ \E amount \in U64, ok \in BOOLEAN : GetCallCoins(amount, ok)
  \/ \E amount \in U64, ok \in BOOLEAN : GetBalance(amount, ok)
  \/ \E a \in AddressPtrs, amount \in U64, ok \in BOOLEAN :
        GetBalanceFor(a, amount, ok)

SpecCoins == Init /\ [][NextCoins]_vars

(***************************************************************************)
(* SpecCode: the module lifecycle functions.                               *)
(***************************************************************************)
CreateSc(bytecode, address, ok, alloc_ok) ==
  /\ Running
  /\ Abi("create_sc", <<bytecode>>,
         assembly_script_create_sc(Top.env, iface, bytecode, address, ok,
                                   alloc_ok))

SetBytecode(bytecode_base64, ok) ==
  /\ Running
  /\ Abi("set_bytecode", <<bytecode_base64>>,
         assembly_script_set_bytecode(Top.env, iface, bytecode_base64, ok))

SetBytecodeFor(address, bytecode_base64, ok) ==
  /\ Running
  /\ Abi("set_bytecode_for", <<address, bytecode_base64>>,
         assembly_script_set_bytecode_for(Top.env, iface, address,
                                          bytecode_base64, ok))

NextCode ==
  \/ \E x \in ExportSets : InitWithInstance(x)
  \/ \E c \in 1 .. MaxOpCost : Meter(c)
  \/ \E b \in BytecodePtrs, a \in Addresses, ok \in BOOLEAN, aok \in BOOLEAN :
        CreateSc(b, a, ok, aok)
  \/ \E b \in BytecodePtrs, ok \in BOOLEAN : SetBytecode(b, ok)
  \/ \E a \in AddressPtrs, b \in BytecodePtrs, ok \in BOOLEAN :
        SetBytecodeFor(a, b, ok)

SpecCode == Init /\ [][NextCode]_vars

(***************************************************************************)
(* SpecData: the datastore functions.  The ledger outlives an execution:   *)
(* when a top-level execution has ended, the next one starts on a fresh    *)
(* instance, at some address, with the datastore as it was left.           *)
(***************************************************************************)
NewExecution(address) ==
  /\ Depth = 1
  /\ Top.pc \in {"running", "trapped", "setup_failed"}
  /\ stack' = <<Frame(ASEnv_new, "new", U64Max, NoErr, NoCtx)>>
  /\ iface' = [iface EXCEPT !.call_stack = <<address>>]
  /\ last' = NoLast
  /\ UNCHANGED hist

Fits(key, value) ==
  \A a \in Addresses :
    has_entry(iface, a, key[1]) =>
      Len(iface.datastore[a][key[1]]) + Len(value[1]) <= MaxValueLen

NextData ==
  \/ InitWithInstance([memory |-> TRUE, remaining |-> TRUE, exhausted |-> TRUE])
  \/ \E a \in Addresses : NewExecution(a)
  \/ \E k \in KeyPtrs, v \in ValuePtrs, ok \in BOOLEAN : SetData(k, v, ok)
  \/ \E k \in KeyPtrs, v \in ValuePtrs \ {BadPtr} :
        Fits(k, v) /\ AppendData(k, v, TRUE)
  \/ \E k \in KeyPtrs, aok \in BOOLEAN : GetData(k, TRUE, aok)
  \/ \E k \in KeyPtrs : HasData(k, TRUE)
  \/ \E k \in KeyPtrs : DeleteData(k, TRUE)
  \/ \E a \in ForPtrs, k \in KeyPtrs, v \in ValuePtrs \ {BadPtr} :
        SetDataFor(a, k, v, TRUE)
  \/ \E a \in ForPtrs, k \in KeyPtrs, v \in ValuePtrs \ {BadPtr} :
        Fits(k, v) /\ AppendDataFor(a, k, v, TRUE)
  \/ \E a \in ForPtrs, k \in KeyPtrs : GetDataFor(a, k, TRUE, TRUE)
  \/ \E a \in AddressPtrs, k \in KeyPtrs : HasDataFor(a, k, TRUE)
  \/ \E a \in ForPtrs, k \in KeyPtrs : DeleteDataFor(a, k, TRUE)

SpecData == Init /\ [][NextData]_vars

(***************************************************************************)
(* SpecDispatch: every dispatch function on one instance.                  *)
(***************************************************************************)
GetRemainingGas ==
  /\ Running
  /\ Abi("get_remaining_gas", << >>,
         assembly_script_get_remaining_gas(Top.env, iface))

PrintMessage(arg, ok) ==
  /\ Running
  /\ Abi("print", <<arg>>, assembly_script_print(Top.env, iface, arg, ok))

Hash(value, ok, alloc_ok) ==
  /\ Running
  /\ Abi("hash", <<value>>,
         assembly_script_hash(Top.env, iface, value, ok, alloc_ok))

GetOwnedAddresses(raw, ok, alloc_ok) ==
  /\ Running
  /\ IF raw
     THEN Abi("get_owned_addresses_raw", << >>,
              assembly_script_get_owned_addresses_raw(Top.env, iface, ok,
                                                      alloc_ok))
     ELSE Abi("get_owned_addresses", << >>,
              assembly_script_get_owned_addresses(Top.env, iface, ok, alloc_ok))

GetCallStack(raw, ok, alloc_ok) ==
  /\ Running
  /\ IF raw
     THEN Abi("get_call_stack_raw", << >>,
              assembly_script_get_call_stack_raw(Top.env, iface, ok, alloc_ok))
     ELSE Abi("get_call_stack", << >>,
              assembly_script_get_call_stack(Top.env, iface, ok, alloc_ok))

GenerateEvent(event, ok) ==
  /\ Running
  /\ Abi("generate_event", <<event>>,
         assembly_script_generate_event(Top.env, iface, event, ok))

AddressFromPublicKey(public_key, alloc_ok) ==
  /\ Running
  /\ Abi("address_from_public_key", <<public_key>>,
         assembly_script_address_from_public_key(Top.env, iface, public_key,
                                                 alloc_ok))

UnsafeRandom(rnd, ok) ==
  /\ Running
  /\ Abi("unsafe_random", << >>,
         assembly_script_unsafe_random(Top.env, iface, rnd, ok))

GetTime(time, ok) ==
  /\ Running
  /\ Abi("get_time", << >>, assembly_script_get_time(Top.env, iface, time, ok))

GetCurrentPeriod(period, ok) ==
  /\ Running
  /\ Abi("get_current_period", << >>,
         assembly_script_get_current_period(Top.env, iface, period, ok))

GetCurrentThread(thread, ok) ==
  /\ Running
  /\ Abi("get_current_thread", << >>,
         assembly_script_get_current_thread(Top.env, iface, thread, ok))

OneKey == {Some("k")}
OneValue == {BadPtr, Some("v")}
TextPtrs == {BadPtr, Some(""), Some("d")}
BoundaryNumbers ==
  { [validity_start_period |-> 0, validity_start_thread |-> t,
     validity_end_period |-> 0, validity_end_thread |-> 0,
     max_gas |-> 0, gas_price |-> 0, raw_coins |-> c] :
      t \in {-1, 0}, c \in {-1, 0} }

NextDispatch ==
  \/ \E x \in ExportSets : InitWithInstance(x)
  \/ \E c \in {MaxOpCost} : Meter(c)
  \/ \E ad \in ForPtrs, f \in NamePtrs, p \in ParamPtrs, a \in {-1, 0},
        ok \in BOOLEAN : Depth < 2 /\ Call(ad, f, p, a, ok)
  \/ \E ret \in {"r"}, fok \in BOOLEAN, aok \in BOOLEAN : CallReturn(ret, fok, aok)
  \/ CallFail
  \/ \E amount \in {U64Max}, ok \in BOOLEAN : GetCallCoins(amount, ok)
  \/ \E to \in ToPtrs, a \in {-1, 0}, ok \in BOOLEAN : TransferCoins(to, a, ok)
  \/ \E from \in FromPtrs, to \in {Some("A2")}, a \in {-1, 0}, ok \in BOOLEAN :
        TransferCoinsFor(from, to, a, ok)
  \/ \E amount \in {U64Max}, ok \in BOOLEAN : GetBalance(amount, ok)
  \/ \E a \in ToPtrs, amount \in {U64Max}, ok \in BOOLEAN :
        GetBalanceFor(a, amount, ok)
  \/ GetRemainingGas
  \/ \E arg \in TextPtrs, ok \in BOOLEAN : PrintMessage(arg, ok)
  \/ \E b \in BytecodePtrs, a \in {"A2"}, ok \in BOOLEAN, aok \in BOOLEAN :
        CreateSc(b, a, ok, aok)
  \/ \E v \in TextPtrs, ok \in BOOLEAN, aok \in BOOLEAN : Hash(v, ok, aok)
  \/ \E k \in OneKey, v \in OneValue, ok \in BOOLEAN : SetData(k, v, ok)
  \/ \E k \in OneKey, v \in OneValue \ {BadPtr} :
        Fits(k, v) /\ AppendData(k, v, TRUE)
  \/ \E k \in OneKey, aok \in BOOLEAN : GetData(k, TRUE, aok)
  \/ \E k \in OneKey : HasData(k, TRUE)
  \/ \E k \in OneKey : DeleteData(k, TRUE)
  \/ \E a \in ToPtrs, k \in OneKey, v \in OneValue : SetDataFor(a, k, v, TRUE)
  \/ \E a \in ToPtrs, k \in OneKey, v \in OneValue \ {BadPtr} :
        a # BadPtr /\ Fits(k, v) /\ AppendDataFor(a, k, v, TRUE)
  \/ \E a \in ToPtrs, k \in OneKey : GetDataFor(a, k, TRUE, TRUE)
  \/ \E a \in ToPtrs, k \in OneKey : HasDataFor(a, k, TRUE)
  \/ \E a \in ToPtrs, k \in OneKey : DeleteDataFor(a, k, TRUE)
  \/ \E raw \in BOOLEAN, ok \in BOOLEAN, aok \in BOOLEAN :
        GetOwnedAddresses(raw, ok, aok)
  \/ \E raw \in BOOLEAN, ok \in BOOLEAN, aok \in BOOLEAN :
        GetCallStack(raw, ok, aok)
  \/ \E e \in TextPtrs, ok \in BOOLEAN : GenerateEvent(e, ok)
  \/ \E d \in TextPtrs, sg \in {BadPtr, Some("sg")}, pk \in {Some("pk"), Some("??")} :
        SignatureVerify(d, sg, pk)
  \/ \E pk \in PublicKeyPtrs, aok \in BOOLEAN : AddressFromPublicKey(pk, aok)
  \/ \E rnd \in {I64Min}, ok \in BOOLEAN : UnsafeRandom(rnd, ok)
  \/ \E t \in {U64Max}, ok \in BOOLEAN : GetTime(t, ok)
  \/ \E p \in MessagePtrs, n \in BoundaryNumbers, ok \in BOOLEAN :
        SendMessage(p, n, ok)
  \/ \E p \in {U64Max}, ok \in BOOLEAN : GetCurrentPeriod(p, ok)
  \/ \E t \in {31}, ok \in BOOLEAN : GetCurrentThread(t, ok)
  \/ \E a \in ToPtrs, b \in BytecodePtrs, ok \in BOOLEAN :
        SetBytecodeFor(a, b, ok)
  \/ \E b \in BytecodePtrs, ok \in BOOLEAN : SetBytecode(b, ok)

SpecDispatch == Init /\ [][NextDispatch]_vars

(***************************************************************************)
(* SpecUnlinked: the gas ledger, and the dispatch functions invoked on an  *)
(* environment whose instance is not linked (freshly constructed, or left  *)
(* by a failed init_with_instance).                                        *)
(***************************************************************************)
DispatchOps ==
  {"call", "get_call_coins", "transfer_coins", "transfer_coins_for",
   "get_balance", "get_balance_for", "get_remaining_gas", "print", "create_sc",
   "hash", "set_data", "append_data", "get_data", "has_data", "delete_data",
   "set_data_for", "append_data_for", "get_data_for", "has_data_for",
   "delete_data_for", "get_owned_addresses", "get_owned_addresses_raw",
   "get_call_stack", "get_call_stack_raw", "generate_event",
   "signature_verify", "address_from_public_key", "unsafe_random", "get_time",
   "send_message", "get_current_period", "get_current_thread",
   "set_bytecode", "set_bytecode_for"}

dispatch(op, env, ifc) ==
  LET a == Some("A2")
      k == Some("k")
      v == Some("v")
      n == [validity_start_period |-> 0, validity_start_thread |-> 0,
            validity_end_period |-> 0, validity_end_thread |-> 0,
            max_gas |-> 0, gas_price |-> 0, raw_coins |-> 0]
      p == [target_address |-> a, target_handler |-> Some("f"), data |-> Some("d")]
      c == assembly_script_call_module_begin(env, ifc, a, Some("f"), Some("p"),
                                             0, TRUE)
  IN CASE op = "call" -> [err |-> c.err, env |-> c.env, iface |-> c.iface,
                          ret |-> None, calls |-> c.calls]
       [] op = "get_call_coins" -> assembly_script_get_call_coins(env, ifc, 1, TRUE)
       [] op = "transfer_coins" -> assembly_script_transfer_coins(env, ifc, a, 1, TRUE)
       [] op = "transfer_coins_for" ->
            assembly_script_transfer_coins_for(env, ifc, Some("A1"), a, 1, TRUE)
       [] op = "get_balance" -> assembly_script_get_balance(env, ifc, 1, TRUE)
       [] op = "get_balance_for" -> assembly_script_get_balance_for(env, ifc, a, 1, TRUE)
       [] op = "get_remaining_gas" -> assembly_script_get_remaining_gas(env, ifc)
       [] op = "print" -> assembly_script_print(env, ifc, v, TRUE)
       [] op = "create_sc" -> assembly_script_create_sc(env, ifc, Some(""), "A2", TRUE, TRUE)
       [] op = "hash" -> assembly_script_hash(env, ifc, v, TRUE, TRUE)
       [] op = "set_data" -> assembly_script_set_data(env, ifc, k, v, TRUE)
       [] op = "append_data" -> assembly_script_append_data(env, ifc, k, v, TRUE)
       [] op = "get_data" -> assembly_script_get_data(env, ifc, k, TRUE, TRUE)
       [] op = "has_data" -> assembly_script_has_data(env, ifc, k, TRUE)
       [] op = "delete_data" -> assembly_script_delete_data(env, ifc, k, TRUE)
       [] op = "set_data_for" -> assembly_script_set_data_for(env, ifc, a, k, v, TRUE)
       [] op = "append_data_for" ->
            assembly_script_append_data_for(env, ifc, a, k, v, TRUE)
       [] op = "get_data_for" -> assembly_script_get_data_for(env, ifc, a, k, TRUE, TRUE)
       [] op = "has_data_for" -> assembly_script_has_data_for(env, ifc, a, k, TRUE)
       [] op = "delete_data_for" -> assembly_script_delete_data_for(env, ifc, a, k, TRUE)
       [] op = "get_owned_addresses" ->
            assembly_script_get_owned_addresses(env, ifc, TRUE, TRUE)
       [] op = "get_owned_addresses_raw" ->
            assembly_script_get_owned_addresses_raw(env, ifc, TRUE, TRUE)
       [] op = "get_call_stack" -> assembly_script_get_call_stack(env, ifc, TRUE, TRUE)
       [] op = "get_call_stack_raw" ->
            assembly_script_get_call_stack_raw(env, ifc, TRUE, TRUE)
       [] op = "generate_event" -> assembly_script_generate_event(env, ifc, v, TRUE)
       [] op = "signature_verify" ->
            assembly_script_signature_verify(env, ifc, Some("d"), Some("sg"),
                                             Some("pk"))
       [] op = "address_from_public_key" ->
            assembly_script_address_from_public_key(env, ifc, Some("pk"), TRUE)
       [] op = "unsafe_random" -> assembly_script_unsafe_random(env, ifc, 0, TRUE)
       [] op = "get_time" -> assembly_script_get_time(env, ifc, 0, TRUE)
       [] op = "send_message" -> assembly_script_send_message(env, ifc, p, n, TRUE)
       [] op = "get_current_period" ->
            assembly_script_get_current_period(env, ifc, 0, TRUE)
       [] op = "get_current_thread" ->
            assembly_script_get_current_thread(env, ifc, 0, TRUE)
       [] op = "set_bytecode" -> assembly_script_set_bytecode(env, ifc, Some(""), TRUE)
       [] op = "set_bytecode_for" ->
            assembly_script_set_bytecode_for(env, ifc, a, Some(""), TRUE)

DispatchUnlinked(op) ==
  /\ Top.pc \in {"new", "setup_failed"}
  /\ LET r == dispatch(op, Top.env, iface)
     IN /\ stack' = [stack EXCEPT ![Depth] = [@ EXCEPT !.env = r.env]]
        /\ iface' = r.iface
        /\ last' = Record(op, << >>, Top.env, r, << >>)
        /\ UNCHANGED hist

NextUnlinked ==
  \/ \E x \in ExportSets : InitWithInstance(x)
  \/ \E c \in 1 .. MaxOpCost : Meter(c)
  \/ GetRemainingPoints
  \/ \E points \in U64 : SetRemainingPoints(points)
  \/ \E gas \in U64 : SubRemainingGas(gas)
  \/ \E a \in Usize, b \in Rates : SubRemainingGasWithMult(a, b)
  \/ \E op \in DispatchOps : DispatchUnlinked(op)

SpecUnlinked == Init /\ [][NextUnlinked]_vars

(***************************************************************************)
(* The trace hook of the guest toolchain (env/as_env.rs).  It charges no   *)
(* gas.  The count n is an i32 that the loop bound widens to usize, a      *)
(* negative count becoming a count near the top of the usize range; each   *)
(* a[i] is an indexing of the five-element array, which panics on an       *)
(* index past its end.  A result tells, besides what a dispatch function   *)
(* tells, whether the hook panicked and which indices it applied to the    *)
(* array, in order.                                                        *)
(***************************************************************************)
ErrTraceMessage == "trace function: aborting failed to load message"
ErrTraceCount == "trace function: invalid number of arguments"
ErrPrintFailed == "interface error: print failed"
PanicIndex == "index out of bounds"

as_usize(n) == IF n < 0 THEN n + UsizeMax + 1 ELSE n
format_f64(x) == <<"0", "1", "2", "3", "4", "5", "6", "7", "8", "9">>[x + 1]

HookRes(err, env, ifc, calls, panicked, accessed) ==
  [err |-> err, env |-> env, iface |-> ifc, ret |-> None, calls |-> calls,
   panicked |-> panicked, accessed |-> accessed]

RECURSIVE trace_push(_, _, _, _, _)
trace_push(message, a, i, count, accessed) ==
  IF i >= count
  THEN [panicked |-> FALSE, message |-> message, accessed |-> accessed]
  ELSE IF i >= Len(a)
  THEN [panicked |-> TRUE, message |-> message, accessed |-> Append(accessed, i)]
  ELSE trace_push(message \o ", " \o format_f64(a[i + 1]), a, i + 1, count,
                  Append(accessed, i))

assembly_script_trace(env, ifc, message, n, a, ok) ==
  IF ~env.memory THEN HookRes(ErrNoMemory, env, ifc, << >>, FALSE, << >>)
  ELSE IF get_string(message).err # NoErr
  THEN HookRes(ErrTraceMessage, env, ifc, << >>, FALSE, << >>)
  ELSE IF n > 5 THEN HookRes(ErrTraceCount, env, ifc, << >>, FALSE, << >>)
  ELSE LET p == trace_push(get_string(message).val, a, 0, as_usize(n), << >>)
       IN IF p.panicked
          THEN HookRes(PanicIndex, env, ifc, << >>, TRUE, p.accessed)
          ELSE LET r == print(ifc, p.message, ok)
                   calls == <<Invoked("print", <<p.message>>)>>
               IN IF r.err # NoErr
                  THEN HookRes(ErrPrintFailed, env, r.iface, calls, FALSE,
                               p.accessed)
                  ELSE HookRes(NoErr, env, r.iface, calls, FALSE, p.accessed)

(***************************************************************************)
(* SpecHooks: the trace hook called by a running guest.  A panic of the    *)
(* host function ends the instance without a trap of the guest.            *)
(***************************************************************************)
TraceCounts == (0 - 2) .. 7
TraceArgs == {<<1, 2, 3, 4, 5>>, <<0, 0, 0, 0, 0>>}

Trace(message, n, a, ok) ==
  /\ Running
  /\ LET r == assembly_script_trace(Top.env, iface, message, n, a, ok)
     IN /\ stack' = [stack EXCEPT ![Depth] =
                       [@ EXCEPT !.env = r.env,
                                 !.pc = IF r.panicked THEN "panicked"
                                        ELSE IF r.err = NoErr THEN "running"
                                        ELSE "trapped",
                                 !.trap = r.err]]
        /\ iface' = r.iface
        /\ last' = [op |-> "trace", args |-> <<message, n, a>>,
                    pre |-> Top.env, post |-> r.env, err |-> r.err,
                    ret |-> None, calls |-> r.calls,
                    aux |-> [panicked |-> r.panicked, accessed |-> r.accessed]]
        /\ UNCHANGED hist

NextHooks ==
  \/ \E x \in ExportSets : InitWithInstance(x)
  \/ \E c \in 1 .. MaxOpCost : Meter(c)
  \/ \E m \in {BadPtr, Some("m")}, n \in TraceCounts, a \in TraceArgs,
        ok \in BOOLEAN : Trace(m, n, a, ok)

SpecHooks == Init /\ [][NextHooks]_vars

(***************************************************************************)
(* SpecNest: chains of nested calls as deep as the gas lets them go.  The  *)
(* ceiling on the number of executions is above what a budget of U64Max    *)
(* can pay for.  exec runs the callee synchronously and a guest cannot     *)
(* stay idle: the interpreter keeps taking a step while one is possible.   *)
(***************************************************************************)
DepthCeiling == (U64Max \div metering_call) + 3

NestedCall(address, ok) ==
  CallWithin(DepthCeiling, address, Some("f"), Some("p"), 0, ok)

NextNest ==
  \/ \E x \in ExportSets : InitWithInstance(x)
  \/ \E c \in 1 .. MaxOpCost : Meter(c)
  \/ \E ad \in {Some("A2")}, ok \in BOOLEAN : NestedCall(ad, ok)
  \/ \E fok \in BOOLEAN, aok \in BOOLEAN : CallReturn("r", fok, aok)
  \/ CallFail

SpecNest == Init /\ [][NextNest]_vars /\ WF_vars(NextNest)

(***************************************************************************)
(* Properties.  Bound: both gas globals are linked.  Effective: the        *)
(* remaining budget of a linked environment, 0 once the exhaustion flag    *)
(* is raised, the counter read as an unsigned word otherwise.              *)
(***************************************************************************)
Bound(env) == env.remaining_points # None /\ env.exhausted_points # None
Exhausted(env) == env.exhausted_points[1] > 0
Effective(env) ==
  IF Exhausted(env) THEN 0
  ELSE IF env.remaining_points[1] < 0 THEN env.remaining_points[1] + Two64
  ELSE env.remaining_points[1]

(* C1: on a linked environment with remaining budget r, sub_remaining_gas(v)
   with v <= r succeeds and get_remaining_points then returns r - v; with
   v > r it fails with the exhaustion error and leaves both counters as
   they were. *)
C1_SubtractExact ==
  (last.op = "sub_remaining_gas" /\ Bound(last.pre)) =>
    LET r == Effective(last.pre)
        v == last.args[1]
        after == get_remaining_points(last.post)
    IN /\ v <= r => /\ last.err = NoErr
                    /\ after.err = NoErr
                    /\ after.val = r - v
       /\ v > r => /\ last.err = ErrGasZero
                   /\ last.post = last.pre

C1_Witness ==
  /\ last.op = "sub_remaining_gas"
  /\ Bound(last.pre)
  /\ last.err = NoErr
  /\ last.args[1] > 0
  /\ Effective(last.pre) > last.args[1]

(* C4: when the exhaustion flag is positive, get_remaining_points returns
   0 whatever the counter holds, and it has fetched the flag only: the
   counter is not decoded. *)
C4_ExhaustedReadsZero ==
  (/\ last.op = "get_remaining_points"
   /\ last.pre.exhausted_points # None
   /\ last.pre.exhausted_points[1] > 0) =>
    /\ last.err = NoErr
    /\ last.ret = Some(0)
    /\ last.aux = <<"exhausted_points">>

C4_Witness ==
  /\ last.op = "get_remaining_points"
  /\ Bound(last.pre)
  /\ last.pre.exhausted_points[1] > 0
  /\ last.pre.remaining_points[1] # 0
  /\ last.ret = Some(0)

(* C5: on a linked environment, exhausted or not, set_remaining_points(x)
   succeeds, leaves the exhaustion flag at 0, and get_remaining_points
   then returns x. *)
C5_SetClearsExhaustion ==
  (last.op = "set_remaining_points" /\ Bound(last.pre)) =>
    /\ last.err = NoErr
    /\ last.post.exhausted_points = Some(0)
    /\ get_remaining_points(last.post).err = NoErr
    /\ get_remaining_points(last.post).val = last.args[1]

C5_Witness ==
  /\ last.op = "set_remaining_points"
  /\ Bound(last.pre)
  /\ Exhausted(last.pre)
  /\ last.args[1] > I64Max
  /\ last.post.exhausted_points = Some(0)

(* C6: sub_remaining_gas_with_mult(a, b) fails with the multiplication
   overflow error, which is not the exhaustion error, and writes no
   counter when a * b does not fit the word; when it fits, its result and
   its effect are those of sub_remaining_gas(a * b). *)
C6_MultOverflow ==
  last.op = "sub_remaining_gas_with_mult" =>
    LET a == last.args[1]
        b == last.args[2]
    IN /\ a * b > UsizeMax => /\ last.err = ErrMulOverflow
                              /\ last.err # ErrGasZero
                              /\ last.post = last.pre
       /\ a * b <= UsizeMax =>
            [err |-> last.err, env |-> last.post]
              = sub_remaining_gas(last.pre, a * b)

C6_Witness ==
  /\ last.op = "sub_remaining_gas_with_mult"
  /\ Bound(last.pre)
  /\ last.args[1] * last.args[2] > UsizeMax
  /\ ((last.args[1] * last.args[2]) % (UsizeMax + 1)) <= Effective(last.pre)
  /\ last.err = ErrMulOverflow

(* C2: the limit given to the interpreter for a callee is the caller's
   effective remaining gas as the ledger holds it once the constant charge
   is made and init_call has succeeded (the budget before the call minus
   metering_call), whatever the guest passed; and when the interpreter
   returns a Response, the caller's effective remaining gas is that
   Response's leftover. *)
Settled == last.op = "call" /\ "resp" \in DOMAIN last.aux
C2_GasHandOver ==
  /\ \A i \in 1 .. Depth - 1 :
       /\ stack[i + 1].limit = Effective(stack[i].env)
       /\ stack[i + 1].limit = Effective(stack[i].ctx.pre) - metering_call
       /\ Len(stack[i].ctx.calls) = 1
       /\ stack[i].ctx.calls[1].method = "init_call"
  /\ (Settled /\ last.aux.resp.err = NoErr) =>
       Effective(last.post) = last.aux.resp.remaining_gas

C2_Witness ==
  /\ Settled
  /\ last.err = NoErr
  /\ last.aux.resp.err = NoErr
  /\ last.aux.resp.remaining_gas > 0
  /\ last.aux.resp.remaining_gas < last.aux.handed
  /\ last.args[4] # last.aux.handed

(* C3: after the call function returns, with a result or with a trap, the
   caller's effective remaining gas is at most what it was just before the
   call; at every nesting depth a callee's limit is at most its caller's
   budget before the call, and the callee's budget never exceeds its
   limit. *)
C3_NoGasCreation ==
  /\ last.op = "call" => Effective(last.post) <= Effective(last.pre)
  /\ \A i \in 2 .. Depth :
       /\ stack[i].limit <= Effective(stack[i - 1].ctx.pre)
       /\ Bound(stack[i].env) => Effective(stack[i].env) <= stack[i].limit

C3_Witness ==
  /\ Depth >= 2
  /\ Settled
  /\ last.err = NoErr
  /\ last.aux.resp.err = NoErr
  /\ last.aux.resp.remaining_gas > 0
  /\ Effective(last.post) < last.aux.handed

(* C7: transfer_coins, transfer_coins_for and call invoked with a negative
   amount fail and invoke no Interface method; the failure is the
   negative-amount error as soon as the constant charge is payable (and,
   for call, the three strings are readable).  No callee runs on behalf
   of a call with negative coins. *)
C7_NegativeAmountRejected ==
  /\ (last.op = "transfer_coins" /\ last.args[2] < 0) =>
       /\ last.err # NoErr
       /\ last.calls = << >>
       /\ Effective(last.pre) >= metering_transfer => last.err = ErrNegativeRaw
  /\ (last.op = "transfer_coins_for" /\ last.args[3] < 0) =>
       /\ last.err # NoErr
       /\ last.calls = << >>
       /\ Effective(last.pre) >= metering_transfer => last.err = ErrNegativeRaw
  /\ (last.op = "call" /\ last.args[4] < 0) =>
       /\ last.err # NoErr
       /\ last.calls = << >>
       /\ (/\ Effective(last.pre) >= metering_call
           /\ last.args[1] # BadPtr
           /\ last.args[2] # BadPtr
           /\ last.args[3] # BadPtr) => last.err = ErrNegativeCall
  /\ \A i \in 1 .. Depth - 1 : stack[i].ctx.args[4] >= 0

C7_Witness ==
  /\ last.op = "call"
  /\ last.args[4] < 0
  /\ last.err = ErrNegativeCall
  /\ Depth >= 2

(* C8: send_message with a negative validity period, max gas, gas price
   or coin amount, or with a validity thread outside the thread range
   (negative, e.g. -1, or above 255), fails and the Interface's
   send_message is not invoked; the Interface is invoked only with all of
   them in range. *)
InRange(n) ==
  /\ n.validity_start_period >= 0
  /\ n.validity_start_thread \in 0 .. U8Max
  /\ n.validity_end_period >= 0
  /\ n.validity_end_thread \in 0 .. U8Max
  /\ n.max_gas >= 0
  /\ n.gas_price >= 0
  /\ n.raw_coins >= 0
C8_SendMessageValidation ==
  last.op = "send_message" =>
    /\ ~InRange(last.args[2]) => (last.err # NoErr /\ last.calls = << >>)
    /\ last.calls # << >> =>
         /\ InRange(last.args[2])
         /\ Len(last.calls) = 1
         /\ last.calls[1].method = "send_message"

C8_Witness ==
  /\ last.op = "send_message"
  /\ last.args[2].validity_start_thread = -1
  /\ InRange([last.args[2] EXCEPT !.validity_start_thread = 0])
  /\ Effective(last.pre) >= metering_send_message
  /\ last.err = "invalid validity start thread"
  /\ last.calls = << >>

(* C9: once signature_verify has paid its charges and read its three
   strings, its outcome is the Interface's report: 0, a normal result,
   for a well-formed signature that does not verify, 1 for one that
   verifies, and a trap only when the Interface rejects the signature or
   the key as malformed. *)
C9_SignatureVerdict ==
  (/\ last.op = "signature_verify"
   /\ BadPtr \notin {last.args[1], last.args[2], last.args[3]}
   /\ Effective(last.pre) >= metering_signature_verify_const
        + Len(last.args[1][1]) * metering_signature_verify_data_mult) =>
    LET data == last.args[1][1]
        sg == last.args[2][1]
        pk == last.args[3][1]
        wellformed == sg \in WellFormedSignatures /\ pk \in WellFormedKeys
    IN /\ (wellformed /\ ~Verifies(data, sg, pk)) =>
            (last.err = NoErr /\ last.ret = Some(0))
       /\ (wellformed /\ Verifies(data, sg, pk)) =>
            (last.err = NoErr /\ last.ret = Some(1))
       /\ last.err # NoErr => (~wellformed /\ last.err = ErrMalformed)

C9_Witness ==
  /\ last.op = "signature_verify"
  /\ last.err = NoErr
  /\ last.ret = Some(0)
  /\ last.args[2] = Some("sx")
  /\ last.args[3] = Some("pk")

(* C10: for the datastore functions on the current and on an arbitrary
   address, when the charges are payable and the strings readable: has
   returns 1 exactly for an entry that a successful set wrote and no
   successful delete removed since, 0 otherwise; get returns the value
   last set (with what was appended since) for such an entry and fails as
   missing otherwise; delete and append fail as missing on an absent
   entry and succeed on a present one; set succeeds whether or not the
   entry exists. *)
SelfOps == {"set_data", "append_data", "get_data", "has_data", "delete_data"}
ForOps == {"set_data_for", "append_data_for", "get_data_for", "has_data_for",
           "delete_data_for"}
Cell ==
  IF last.op \in SelfOps THEN <<last.aux.self, last.args[1][1]>>
  ELSE <<last.args[1][1], last.args[2][1]>>
Unhindered ==
  last.err \notin {ErrGasZero, ErrMulOverflow, ErrRead, ErrAlloc, ErrInterface,
                   ErrNoMemory}
C10_DatastoreSequences ==
  LET present == Cell \in DOMAIN last.aux.hist
  IN /\ (last.op \in {"has_data", "has_data_for"} /\ last.err = NoErr) =>
          last.ret = Some(IF present THEN 1 ELSE 0)
     /\ (last.op \in {"has_data", "has_data_for"} /\ Unhindered) =>
          last.err = NoErr
     /\ (last.op \in {"get_data", "get_data_for"} /\ Unhindered) =>
          IF present
          THEN last.err = NoErr /\ last.ret = Some(last.aux.hist[Cell])
          ELSE last.err = ErrNoEntry
     /\ (last.op \in {"delete_data", "delete_data_for", "append_data",
                      "append_data_for"} /\ Unhindered) =>
          IF present THEN last.err = NoErr ELSE last.err = ErrNoEntry
     /\ (last.op \in {"set_data", "set_data_for"} /\ Unhindered) =>
          last.err = NoErr

C10_Witness ==
  /\ last.op = "get_data_for"
  /\ last.err = NoErr
  /\ last.ret = Some("v")
  /\ last.args[1][1] # last.aux.self
  /\ <<last.aux.self, last.args[2][1]>> \notin DOMAIN hist


(* C11: a successful datastore operation, on the current or on an arbitrary
   address, lowers the remaining gas by exactly
   const + len(key) * key rate + len(value) * value rate, and a successful
   get by len(returned value) * value rate more; that last charge comes
   after the Interface read: a get that can pay its constant and key
   charges but not the charge for the returned value has already invoked
   the Interface and keeps the constant and key charges deducted. *)
DataKey == IF last.op \in SelfOps THEN last.args[1][1] ELSE last.args[2][1]
DataValue == IF last.op \in SelfOps THEN last.args[2][1] ELSE last.args[3][1]
DataCost ==
  CASE last.op \in {"set_data", "set_data_for"} ->
         metering_set_data_const + Len(DataKey) * metering_set_data_key_mult
           + Len(DataValue) * metering_set_data_value_mult
    [] last.op \in {"append_data", "append_data_for"} ->
         metering_append_data_const + Len(DataKey) * metering_append_data_key_mult
           + Len(DataValue) * metering_append_data_value_mult
    [] last.op \in {"get_data", "get_data_for"} ->
         metering_get_data_const + Len(DataKey) * metering_get_data_key_mult
    [] last.op \in {"has_data", "has_data_for"} ->
         metering_has_data_const + Len(DataKey) * metering_has_data_key_mult
    [] last.op \in {"delete_data", "delete_data_for"} ->
         metering_delete_data_const + Len(DataKey) * metering_delete_data_key_mult
C11_DatastoreCharge ==
  /\ (last.op \in SelfOps \cup ForOps /\ last.err = NoErr) =>
       /\ Bound(last.post)
       /\ Effective(last.post) = Effective(last.pre) - DataCost
            - (IF last.op \in {"get_data", "get_data_for"}
               THEN Len(last.ret[1]) * metering_get_data_value_mult ELSE 0)
  /\ (/\ last.op \in {"get_data", "get_data_for"}
      /\ last.err = ErrGasZero
      /\ Effective(last.pre) >= DataCost) =>
       /\ Len(last.calls) = 1
       /\ last.calls[1].method \in {"raw_get_data", "raw_get_data_for"}
       /\ Effective(last.post) = Effective(last.pre) - DataCost

C11_Witness ==
  /\ last.op = "get_data"
  /\ last.err = NoErr
  /\ last.ret = Some("v")
  /\ last.args[1] = Some("kk")
  /\ Effective(last.post) = Effective(last.pre) - 4


(* C12: create_module, set_bytecode and set_bytecode_for each charge a
   constant cost and then len(base64 payload) * rate: a successful
   invocation lowers the remaining gas by the payload charge plus a
   positive constant (the set_bytecode constant for the two set
   functions); none of the three succeeds for the payload charge alone. *)
Payload == last.args[Len(last.args)][1]
C12_BytecodeCharge ==
  (last.op \in {"create_sc", "set_bytecode", "set_bytecode_for"}
     /\ last.err = NoErr) =>
    /\ last.op \in {"set_bytecode", "set_bytecode_for"} =>
         Effective(last.post) = Effective(last.pre) - metering_set_bytecode_const
                                  - Len(Payload) * metering_set_bytecode_mult
    /\ last.op = "create_sc" =>
         Effective(last.pre) - Effective(last.post)
           > Len(Payload) * metering_create_sc_mult

(* What the three functions do charge: the two set functions the constant
   and the payload, create_module the payload only. *)
C12_ChargesMade ==
  (last.op \in {"create_sc", "set_bytecode", "set_bytecode_for"}
     /\ last.err = NoErr) =>
    Effective(last.post) = Effective(last.pre)
      - (IF last.op = "create_sc"
         THEN Len(Payload) * metering_create_sc_mult
         ELSE metering_set_bytecode_const
                + Len(Payload) * metering_set_bytecode_mult)

C12_Witness ==
  /\ last.op = "create_sc"
  /\ last.err = NoErr
  /\ last.args[1] = Some("QQ==")
  /\ Len(last.calls) = 1
  /\ Effective(last.post) = Effective(last.pre) - 4 * metering_create_sc_mult


(* C13: when the Interface's init_call fails, the call function traps: no
   callee instance is started (the chain of executions keeps its depth and
   every started callee stands on an address init_call pushed), finish_call
   is not invoked, the Interface is left as init_call left it, and the
   caller's remaining gas is its value before the call minus the call's
   constant charge only. *)
ResolutionFailed(l) ==
  l.op = "call" /\ "resp" \notin DOMAIN l.aux /\ l.calls # << >>
C13_FailedResolution ==
  [][/\ Len(iface'.call_stack) >= Len(stack')
     /\ ResolutionFailed(last') =>
          /\ last'.err = ErrInterface
          /\ Len(last'.calls) = 1
          /\ last'.calls[1].method = "init_call"
          /\ Len(stack') = Len(stack)
          /\ stack'[Len(stack')].pc = "trapped"
          /\ stack'[Len(stack')].env = last'.post
          /\ iface' = iface
          /\ Effective(last'.post) = Effective(last'.pre) - metering_call]_vars

C13_Witness ==
  /\ ResolutionFailed(last)
  /\ last.err = ErrInterface
  /\ Depth >= 2
  /\ Top.pc = "trapped"
  /\ Effective(Top.env) = Effective(last.pre) - metering_call


(* C14: the call protocol proceeds in the order init_call, execution of
   the callee, write of the callee's leftover gas into the caller's
   ledger, finish_call, allocation of the return string.  While a callee
   runs, its caller has invoked init_call and nothing else; once the
   callee has returned a Response the caller has invoked init_call then
   finish_call, whatever follows; if finish_call fails the call traps
   without a result although the execution completed, and the caller's
   remaining gas is already the callee's leftover; if the allocation
   fails, finish_call has been invoked and the leftover written. *)
C14_SettlementOrder ==
  /\ \A i \in 1 .. Depth - 1 :
       /\ stack[i].pc = "calling"
       /\ Len(stack[i].ctx.calls) = 1
       /\ stack[i].ctx.calls[1].method = "init_call"
       /\ Effective(stack[i].env) = stack[i + 1].limit
  /\ (Settled /\ last.aux.resp.err = NoErr) =>
       /\ Len(last.calls) = 2
       /\ last.calls[1].method = "init_call"
       /\ last.calls[2].method = "finish_call"
       /\ Effective(last.post) = last.aux.resp.remaining_gas
       /\ last.err \in {NoErr, ErrInterface, ErrAllocResponse}
       /\ last.err # NoErr => (last.ret = None /\ Top.pc = "trapped")
       /\ last.err = NoErr => last.ret = Some(last.aux.resp.ret)
       /\ last.err # ErrInterface => Len(iface.call_stack) = Depth
       /\ last.err = ErrInterface => Len(iface.call_stack) = Depth + 1

C14_Witness ==
  /\ Settled
  /\ last.aux.resp.err = NoErr
  /\ last.err = ErrInterface
  /\ last.calls[2].method = "finish_call"
  /\ last.aux.resp.remaining_gas < last.aux.handed
  /\ Effective(Top.env) = last.aux.resp.remaining_gas
  /\ Top.pc = "trapped"


(* C15: when the execution of a callee fails, by gas exhaustion or by any
   other trap, at any nesting depth, the only thing that follows is its
   caller's call function returning a trap with the callee's error and no
   result; a frame that has trapped never runs again, so the failure
   travels to every enclosing caller and none of them returns a result to
   its guest. *)
C15_TrapPropagation ==
  [][/\ (Len(stack) > 1
           /\ stack[Len(stack)].pc \in {"trapped", "setup_failed"}) =>
          /\ Len(stack') = Len(stack) - 1
          /\ stack'[Len(stack')].pc = "trapped"
          /\ stack'[Len(stack')].trap = stack[Len(stack)].trap
          /\ last'.op = "call"
          /\ last'.err = stack[Len(stack)].trap
          /\ last'.err # NoErr
          /\ last'.ret = None
     /\ \A i \in 1 .. Len(stack) :
          stack[i].pc \in {"trapped", "setup_failed"} =>
            (i > Len(stack') \/ stack'[i].pc = stack[i].pc)]_vars

C15_Witness ==
  /\ Settled
  /\ last.aux.resp.err = ErrMeterTrap
  /\ last.err = ErrMeterTrap
  /\ last.ret = None
  /\ Depth = 2
  /\ Top.pc = "trapped"


(* C16: for every unsigned amount the Interface reports, get_call_coins,
   get_balance and get_balance_for return to the guest a signed value
   that is non-negative and numerically equal to the reported amount. *)
CoinGetters == {"get_call_coins", "get_balance", "get_balance_for"}
C16_AmountsNonNegative ==
  (last.op \in CoinGetters /\ last.err = NoErr) =>
    /\ last.ret[1] >= 0
    /\ last.ret[1] = last.aux.reported

(* What the three functions return: the reported amount reinterpreted as
   a signed word, equal to it up to I64Max and negative above. *)
C16_AmountsReinterpreted ==
  (last.op \in CoinGetters /\ last.err = NoErr) =>
    /\ last.ret[1] \in I64
    /\ last.aux.reported <= I64Max => last.ret[1] = last.aux.reported
    /\ last.aux.reported > I64Max => last.ret[1] = last.aux.reported - Two64

C16_Witness ==
  /\ last.op = "get_balance"
  /\ last.err = NoErr
  /\ last.aux.reported = I64Max + 1
  /\ last.ret = Some(I64Min)


(* C17: once exhausted_points is positive, no charge (sub_remaining_gas or
   sub_remaining_gas_with_mult, of any cost, zero included) clears the
   flag or makes the effective remaining budget non-zero: after the
   charge the flag is still positive and the effective budget still 0. *)
Charges == {"sub_remaining_gas", "sub_remaining_gas_with_mult"}
C17_StickyExhaustion ==
  (last.op \in Charges /\ Bound(last.pre) /\ Exhausted(last.pre)) =>
    /\ Exhausted(last.post)
    /\ Effective(last.post) = 0

(* What the charges do keep on an exhausted environment: the effective
   budget stays 0; a charge of a positive cost fails and writes nothing,
   a charge of cost zero succeeds, zeroes the counter and clears the
   flag. *)
C17_BudgetStaysZero ==
  (last.op \in Charges /\ Bound(last.pre) /\ Exhausted(last.pre)) =>
    /\ Effective(last.post) = 0
    /\ last.err # NoErr => last.post = last.pre
    /\ last.err = NoErr =>
         /\ last.post.remaining_points = Some(0)
         /\ last.post.exhausted_points = Some(0)
         /\ last.op = "sub_remaining_gas" => last.args[1] = 0
         /\ last.op = "sub_remaining_gas_with_mult" =>
              last.args[1] * last.args[2] = 0

C17_Witness ==
  /\ last.op = "sub_remaining_gas_with_mult"
  /\ last.args = <<0, 1>>
  /\ Bound(last.pre)
  /\ Exhausted(last.pre)
  /\ last.pre.remaining_points # Some(0)
  /\ last.err = NoErr
  /\ last.post.exhausted_points = Some(0)


(* C18: in every dispatch function the Interface is invoked only after the
   charges the function makes on its arguments (its constant charge and
   every per-byte argument charge) have succeeded: whenever an Interface
   method was invoked, the gas before the invocation covered those charges
   and they are deducted; an invocation that fails on a charge, other than
   the charge for a value get has read, has invoked no Interface method;
   a function other than call invokes at most one Interface method, call
   at most init_call then finish_call. *)
ChargedFirst ==
  CASE last.op \in SelfOps \cup ForOps -> DataCost
    [] last.op = "call" -> metering_call
    [] last.op \in {"transfer_coins", "transfer_coins_for"} -> metering_transfer
    [] last.op = "get_call_coins" -> metering_get_call_coins
    [] last.op \in {"get_balance", "get_balance_for"} -> metering_get_balance
    [] last.op = "print" -> metering_print
    [] last.op = "create_sc" -> Len(last.args[1][1]) * metering_create_sc_mult
    [] last.op = "set_bytecode" ->
         metering_set_bytecode_const
           + Len(last.args[1][1]) * metering_set_bytecode_mult
    [] last.op = "set_bytecode_for" ->
         metering_set_bytecode_const
           + Len(last.args[2][1]) * metering_set_bytecode_mult
    [] last.op = "hash" ->
         metering_hash_const + Len(last.args[1][1]) * metering_hash_per_byte
    [] last.op = "signature_verify" ->
         metering_signature_verify_const
           + Len(last.args[1][1]) * metering_signature_verify_data_mult
    [] last.op \in {"get_owned_addresses", "get_owned_addresses_raw"} ->
         metering_get_owned_addrs
    [] last.op \in {"get_call_stack", "get_call_stack_raw"} ->
         metering_get_call_stack
    [] last.op = "generate_event" -> metering_generate_event
    [] last.op = "address_from_public_key" -> metering_address_from_public_key
    [] last.op = "unsafe_random" -> metering_unsafe_random
    [] last.op = "get_time" -> metering_get_time
    [] last.op = "send_message" -> metering_send_message
    [] last.op = "get_current_period" -> metering_get_current_period
    [] last.op = "get_current_thread" -> metering_get_current_thread
GasErrors == {ErrGasZero, ErrMulOverflow}
C18_PayBeforeEffect ==
  /\ last.calls # << >> =>
       /\ Effective(last.pre) >= ChargedFirst
       /\ Effective(last.post) <= Effective(last.pre) - ChargedFirst
       /\ last.op # "call" => Len(last.calls) = 1
       /\ last.op = "call" =>
            /\ Len(last.calls) <= 2
            /\ last.calls[1].method = "init_call"
            /\ Len(last.calls) = 2 => last.calls[2].method = "finish_call"
  /\ (/\ last.err \in GasErrors
      /\ last.op \notin {"none", "get_data", "get_data_for"}
      /\ ~Settled) => last.calls = << >>
  /\ \A i \in 1 .. Depth - 1 :
       /\ Len(stack[i].ctx.calls) = 1
       /\ Effective(stack[i].ctx.pre) >= metering_call
       /\ Effective(stack[i].env) = Effective(stack[i].ctx.pre) - metering_call

C18_Witness ==
  /\ last.op = "hash"
  /\ last.args[1] = Some("d")
  /\ last.err = ErrGasZero
  /\ last.calls = << >>
  /\ Effective(last.pre) >= metering_hash_const
  /\ Effective(last.post) = Effective(last.pre) - metering_hash_const


(* C19: a dispatch function that fails after charges were made keeps them
   deducted.  A failure never raises the remaining gas; after a
   validation error, invalid base64 or an Interface error the remaining
   gas is the prior value minus the charges made on the arguments (for
   transfer_coins with a negative amount: minus the transfer constant);
   after an unreadable string the constant charge at least stays
   deducted; after a failed per-byte charge the constant and the earlier
   per-byte charges stay deducted (for set_data failing on the value
   charge: the constant and the key charge); a failed callee leaves the
   caller's call constant deducted. *)
ConstOf ==
  CASE last.op \in {"set_data", "set_data_for"} -> metering_set_data_const
    [] last.op \in {"append_data", "append_data_for"} -> metering_append_data_const
    [] last.op \in {"get_data", "get_data_for"} -> metering_get_data_const
    [] last.op \in {"has_data", "has_data_for"} -> metering_has_data_const
    [] last.op \in {"delete_data", "delete_data_for"} -> metering_delete_data_const
    [] last.op \in {"set_bytecode", "set_bytecode_for"} -> metering_set_bytecode_const
    [] last.op = "hash" -> metering_hash_const
    [] last.op = "signature_verify" -> metering_signature_verify_const
    [] last.op = "create_sc" -> 0
    [] last.op = "get_remaining_gas" -> metering_remaining_gas
    [] OTHER -> ChargedFirst
Failed == last.op # "none" /\ last.err # NoErr /\ Bound(last.pre)
C19_NoRefund ==
  Failed =>
    /\ Bound(last.post)
    /\ Effective(last.post) <= Effective(last.pre)
    /\ (last.calls = << >> /\ last.err \notin GasErrors \cup {ErrRead, ErrNoMemory}) =>
         Effective(last.post) = Effective(last.pre) - ChargedFirst
    /\ (last.calls # << >> /\ ~Settled /\ last.err # ErrAlloc) =>
         Effective(last.post) = Effective(last.pre) - ChargedFirst
    /\ (Settled /\ last.aux.resp.err # NoErr) =>
         Effective(last.post) = Effective(last.pre) - metering_call
    /\ (Settled /\ last.aux.resp.err = NoErr) =>
         Effective(last.post) = last.aux.resp.remaining_gas
    /\ last.err = ErrAlloc =>
         Effective(last.post) = Effective(last.pre) - ChargedFirst
           - (IF last.op \in {"get_data", "get_data_for"}
              THEN Len(last.aux.hist[Cell]) * metering_get_data_value_mult
              ELSE 0)
    /\ last.err = ErrRead => Effective(last.post) <= Effective(last.pre) - ConstOf
    /\ (last.err \in GasErrors /\ last.calls = << >>
          /\ Effective(last.pre) >= ConstOf) =>
         Effective(last.post) <= Effective(last.pre) - ConstOf
    /\ (last.err \in GasErrors /\ last.calls = << >>
          /\ Effective(last.pre) < ConstOf) => last.post = last.pre
    /\ (last.op \in {"set_data", "set_data_for"}
          /\ last.args[IF last.op = "set_data" THEN 2 ELSE 3] # BadPtr
          /\ last.err = ErrGasZero
          /\ Effective(last.pre) >= metering_set_data_const
               + Len(DataKey) * metering_set_data_key_mult) =>
         Effective(last.post) = Effective(last.pre) - metering_set_data_const
                                  - Len(DataKey) * metering_set_data_key_mult

C19_Witness ==
  /\ last.op = "set_data"
  /\ last.args = <<Some("k"), Some("v")>>
  /\ last.err = ErrGasZero
  /\ last.calls = << >>
  /\ Effective(last.pre) >= metering_set_data_const + metering_set_data_key_mult
  /\ Effective(last.post) = Effective(last.pre) - metering_set_data_const
                             - metering_set_data_key_mult
  /\ Effective(last.post) > 0


(* C20: on an environment whose two gas globals are not bound,
   get_remaining_points, set_remaining_points, sub_remaining_gas and
   sub_remaining_gas_with_mult each fail with an error and write no
   counter, and every dispatch function fails without invoking the
   Interface and leaves the environment as it was; those that start by
   charging fail with the ledger's lost-reference error. *)
Unbound(env) == env.remaining_points = None /\ env.exhausted_points = None
LedgerOps ==
  {"get_remaining_points", "set_remaining_points", "sub_remaining_gas",
   "sub_remaining_gas_with_mult"}
C20_UnboundEnvironment ==
  (last.op # "none" /\ Unbound(last.pre)) =>
    /\ last.err # NoErr
    /\ last.ret = None
    /\ last.post = last.pre
    /\ last.calls = << >>
    /\ iface = Interface_new
    /\ last.op = "set_remaining_points" => last.err = ErrLostRemaining
    /\ last.op \in {"get_remaining_points", "sub_remaining_gas"} =>
         last.err = ErrLostExhausted
    /\ last.op = "sub_remaining_gas_with_mult" =>
         last.err = IF last.args[1] * last.args[2] <= UsizeMax
                    THEN ErrLostExhausted ELSE ErrMulOverflow
    /\ last.op \in DispatchOps \ {"create_sc"} => last.err = ErrLostExhausted

C20_Witness ==
  /\ last.op = "set_data"
  /\ last.pre = ASEnv_new
  /\ last.err = ErrLostExhausted
  /\ last.calls = << >>
  /\ Top.env = ASEnv_new


(***************************************************************************)
(* C21.  Two-phase initialisation is all-or-nothing: in every reachable    *)
(* state the counter and the flag of an environment are both absent or     *)
(* both present, and a binding attempt that reports the setup error        *)
(* leaves the environment with neither of them bound.                      *)
(* init_with_instance assigns remaining_points before it looks up the      *)
(* flag, so an instance exporting the counter without the flag leaves the  *)
(* counter bound alone: the statement does not hold of the code.           *)
(***************************************************************************)
C21_AllOrNothing ==
  /\ \A i \in 1 .. Depth : Unbound(stack[i].env) \/ Bound(stack[i].env)
  /\ \A i \in 1 .. Depth :
       stack[i].pc = "setup_failed" => Unbound(stack[i].env)

(* What the code does keep: the flag is never bound without the counter,   *)
(* a linked instance has both, and a failed attempt never binds the flag.  *)
C21_FlagNeverAlone ==
  \A i \in 1 .. Depth :
    LET e == stack[i].env
    IN /\ e.exhausted_points # None => e.remaining_points # None
       /\ stack[i].pc = "running" => Bound(e)
       /\ stack[i].pc = "setup_failed" => e.exhausted_points = None
       /\ stack[i].pc = "new" => Unbound(e)

C21_Witness ==
  /\ Top.pc = "setup_failed"
  /\ Top.trap = ErrSetup
  /\ Top.env.memory
  /\ Top.env.remaining_points = Some(u64_to_i64(Top.limit))
  /\ Top.env.exhausted_points = None


(* C22: invalid base64 never reaches the Interface.  When the payload of
   create_module, set_bytecode or set_bytecode_for is readable text that is
   not valid base64, the function fails and invokes no Interface method;
   whenever the charges before the decoding can be paid (and the memory and
   the address are readable) it fails with the decode error, and then the
   per-byte charge for the payload, after the constant of the two set
   functions, has been taken from the remaining gas. *)
CodeOps == {"create_sc", "set_bytecode", "set_bytecode_for"}
InvalidPayload ==
  /\ last.op \in CodeOps
  /\ last.args[Len(last.args)] # BadPtr
  /\ base64_decode(Payload).err # NoErr
CodeCharge ==
  IF last.op = "create_sc" THEN Len(Payload) * metering_create_sc_mult
  ELSE metering_set_bytecode_const + Len(Payload) * metering_set_bytecode_mult
C22_InvalidBase64 ==
  InvalidPayload =>
    /\ last.err # NoErr
    /\ last.calls = << >>
    /\ last.ret = None
    /\ (/\ last.pre.memory
        /\ Effective(last.pre) >= CodeCharge
        /\ last.op = "set_bytecode_for" => last.args[1] # BadPtr)
         => last.err = ErrBase64
    /\ last.err = ErrBase64 =>
         Effective(last.post) = Effective(last.pre) - CodeCharge

C22_Witness ==
  /\ last.op = "set_bytecode"
  /\ last.args = <<Some("?")>>
  /\ last.err = ErrBase64
  /\ last.calls = << >>
  /\ Effective(last.post)
       = Effective(last.pre) - metering_set_bytecode_const
           - metering_set_bytecode_mult
  /\ Effective(last.post) < Effective(last.pre)


(* C23: nesting is bounded by gas.  The call constant being at least 1,
   the gas handed to each nested execution is at most the gas handed to
   the execution that called it minus the call constant; hence a top-level
   execution with budget G never has more than G divided by the call
   constant nested calls in progress, and every nested execution
   eventually ends (by returning or by a trap) and gives the hand back to
   its caller. *)
HandedDown ==
  \A i \in 1 .. Depth - 1 :
    /\ stack[i].pc = "calling"
    /\ stack[i + 1].limit = stack[i].ctx.gas
    /\ stack[i + 1].limit <= stack[i].limit - metering_call
NestingDepth == Depth - 1
C23_NestingBounded ==
  /\ [](metering_call >= 1 =>
          /\ HandedDown
          /\ NestingDepth <= stack[1].limit \div metering_call)
  /\ \A d \in 2 .. DepthCeiling : (Depth = d) ~> (Depth < d)

C23_Witness ==
  /\ NestingDepth = stack[1].limit \div metering_call
  /\ NestingDepth > MaxDepth
  /\ Top.pc = "running"
  /\ Top.limit = 0


(* C24: gas never increases outside call settlement.  Every dispatch
   function other than call leaves the effective remaining gas of the
   running instance at or below what it was, the environment staying
   linked and its exhaustion flag untouched, and what get_remaining
   returns is that lowered value; no step that keeps the chain of
   executions as it is raises the effective remaining gas of the running
   instance.  The one write that is not the current budget minus a charge
   is the settlement of a completed call, which writes the callee's
   leftover. *)
NonCall == last.op \notin {"none", "call"}
C24_NoIncrease ==
  /\ [](/\ NonCall =>
             /\ Bound(last.pre) /\ Bound(last.post)
             /\ last.post.exhausted_points = last.pre.exhausted_points
             /\ Effective(last.post) <= Effective(last.pre)
        /\ (last.op = "get_remaining_gas" /\ last.err = NoErr) =>
             /\ last.ret = Some(u64_to_i64(Effective(last.post)))
             /\ Effective(last.post)
                  = Effective(last.pre) - metering_remaining_gas
        /\ (Settled /\ last.aux.resp.err = NoErr) =>
             Effective(last.post) = last.aux.resp.remaining_gas)
  /\ [][(Depth' = Depth /\ Bound(Top.env) /\ Bound(Top.env'))
          => Effective(Top.env') <= Effective(Top.env)]_vars

C24_Witness ==
  /\ last.op = "get_remaining_gas"
  /\ last.err = NoErr
  /\ Effective(last.pre) < U64Max
  /\ Effective(last.post) = Effective(last.pre) - metering_remaining_gas
  /\ last.ret = Some(u64_to_i64(Effective(last.post)))


(* C25: call-frame pairing.  Whenever the call function returns
   successfully, the Interface saw init_call once and then finish_call
   once, and nothing else, for that frame.  Whenever init_call succeeded
   and the execution of the callee failed, finish_call is not invoked for
   that frame (the address init_call pushed stays on the Interface's
   stack) and the caller's environment is what it was when the execution
   started: the budget before the call minus the call constant, which is
   the gas that was handed over, with no settlement written. *)
Methods(calls) == [i \in 1 .. Len(calls) |-> calls[i].method]
C25_FramePairing ==
  /\ (last.op = "call" /\ last.err = NoErr) =>
       /\ Settled
       /\ last.aux.resp.err = NoErr
       /\ Methods(last.calls) = <<"init_call", "finish_call">>
       /\ Len(iface.call_stack) = Depth
  /\ (Settled /\ last.aux.resp.err # NoErr) =>
       /\ Methods(last.calls) = <<"init_call">>
       /\ last.err = last.aux.resp.err
       /\ last.aux.handed = Effective(last.pre) - metering_call
       /\ last.post = [last.pre EXCEPT
                         !.remaining_points = Some(u64_to_i64(last.aux.handed))]
       /\ Len(iface.call_stack) > Depth

C25_Witness ==
  /\ Settled
  /\ last.aux.resp.err = ErrMeterTrap
  /\ Methods(last.calls) = <<"init_call">>
  /\ last.aux.handed > 0
  /\ Effective(last.post) = last.aux.handed
  /\ Len(iface.call_stack) = Depth + 1


(* C26: argument-count validation of trace.  For every n in 0..5 the hook
   appends exactly the first n numeric arguments to the message and
   invokes the Interface's print exactly once; for every other n, greater
   than 5 or negative, it returns a trap without invoking print and
   without applying to the five-element array an index outside it.
   The code rejects n > 5 only: a negative n widens to a large loop bound,
   the loop reaches index 5 and the hook panics, so the statement does not
   hold of the code. *)
TraceRead ==
  last.op = "trace" /\ last.pre.memory /\ last.args[1] # BadPtr
Appended(a, n) ==
  [i \in 1 .. n |-> a[i]]
RECURSIVE Shown(_, _)
Shown(message, xs) ==
  IF xs = << >> THEN message
  ELSE Shown(message \o ", " \o format_f64(Head(xs)), Tail(xs))
InArray(accessed, a) ==
  \A k \in 1 .. Len(accessed) : accessed[k] >= 0 /\ accessed[k] < Len(a)
C26_TraceValidation ==
  TraceRead =>
    LET n == last.args[2]
        a == last.args[3]
    IN /\ n \in 0 .. 5 =>
            /\ ~last.aux.panicked
            /\ last.calls = <<Invoked("print",
                   <<Shown(last.args[1][1], Appended(a, n))>>)>>
            /\ last.err \in {NoErr, ErrPrintFailed}
       /\ n \notin 0 .. 5 =>
            /\ last.err # NoErr
            /\ ~last.aux.panicked
            /\ last.calls = << >>
            /\ InArray(last.aux.accessed, a)

(* What the code does: a count within 0..5 prints the message with the
   first n arguments; a count above 5 traps before the array is touched; a
   negative count reads the five arguments, applies index 5 and panics,
   print never being invoked. *)
C26_TraceOutcome ==
  TraceRead =>
    LET n == last.args[2]
        a == last.args[3]
    IN /\ n \in 0 .. 5 =>
            /\ ~last.aux.panicked
            /\ last.calls = <<Invoked("print",
                   <<Shown(last.args[1][1], Appended(a, n))>>)>>
            /\ last.aux.accessed = [k \in 1 .. n |-> k - 1]
       /\ n > 5 =>
            /\ last.err = ErrTraceCount
            /\ ~last.aux.panicked
            /\ last.calls = << >> /\ last.aux.accessed = << >>
       /\ n < 0 =>
            /\ last.aux.panicked
            /\ last.calls = << >>
            /\ last.aux.accessed = <<0, 1, 2, 3, 4, 5>>
       /\ last.post = last.pre

C26_Witness ==
  /\ last.op = "trace"
  /\ last.args[1] = Some("m")
  /\ last.args[2] = 0 - 1
  /\ last.aux.panicked
  /\ last.calls = << >>
  /\ ~InArray(last.aux.accessed, last.args[3])
  /\ Top.pc = "panicked"

====
